---------------------------- MODULE Spec2Model ----------------------------
(***************************************************************************)
(* PyCscope (src/pycscope/__init__.py): the symbol-classification and      *)
(* cscope-database encoding engine, as a state machine.                    *)
(*                                                                         *)
(* Text is modelled by TLA+ strings (Len, \o, SubSeq, Head and Tail act on *)
(* them character by character).  A concrete syntax tree is a tree of      *)
(* records; the identity id(node) of a node is its path from the root.     *)
(* The trees are those of the Python 2.7 grammar (sys.hexversion <         *)
(* 0x03000000: tse = testlist, marks are valid on NAME and DOT).           *)
(*                                                                         *)
(* Specifications:                                                         *)
(*   Spec       main(): work() over a list of files, the walk of each      *)
(*              file's tree, the sentinel and writeIndex()                 *)
(*   SpecLine   Line.__add__ and Line.format on arbitrary runs             *)
(*   SpecMarks  Context.setMark and Context.getMark on arbitrary nodes     *)
(*   SpecTerm   processTerminal on arbitrary streams of terminals          *)
(***************************************************************************)
EXTENDS Integers, Sequences, FiniteSets, TLC

VARIABLES
    strings_as_symbols, \* the global toggle set by -S
    basepath,           \* os.getcwd()
    args,               \* the file names genFiles() yields, in order
    gen,                \* the file names genFiles() has still to yield
    indexbuff,          \* work(): the corpus buffer (list of strings)
    indexbuff_len,      \* work(): the running entry counter
    fnamesbuff,         \* work(): the recorded file names
    fout,               \* the strings written to the index file, in order
    stdout,             \* the per-file error reports printed by work()
    pc,                 \* position of main(): "work" | "walk" | "main" | "write" | "done"
    relpath,            \* the file being parsed
    stack,              \* walkCst(): the explicit work stack
    lineno,             \* walkCst(): line of the terminal most recently seen
    ctx,                \* the Context of the file being walked
    op                  \* the operation applied last, with its outcome

vars == <<strings_as_symbols, basepath, args, gen, indexbuff, indexbuff_len,
          fnamesbuff, fout, stdout, pc, relpath, stack, lineno, ctx, op>>

-----------------------------------------------------------------------------
(* Bounds of the model *)

\* Spec: the number of files of a run
MaxFiles == 3

\* SpecLine: the number of runs appended to one Line
MaxRuns == 4

\* SpecMarks: the number of calls of setMark and getMark
MaxCalls == 4

\* SpecTerm: the number of terminals of a stream
MaxToks == 4

-----------------------------------------------------------------------------
(* class Mark *)

FILE == "@"
FUNC_DEF == "$"
\* Mark.FUNC_CALL is the grave accent, which no TLA+ string can hold: the
\* circumflex stands for it
FUNC_CALL == "^"
FUNC_END == "}"
INCLUDE == "~"
ASSIGN == "="
CLASS == "c"
GLOBAL == "g"
\* Mark.LOCAL (LOCAL is a reserved word of TLA+)
LOCAL_ == "l"

\* Mark.__valid
Mark_valid == {FILE, FUNC_DEF, FUNC_CALL, FUNC_END, INCLUDE, ASSIGN, CLASS, GLOBAL, LOCAL_}

\* Mark(mark): None and '' both become ''; any other mark must be valid
MarkOk(mark) == mark = "" \/ mark \in Mark_valid

\* Mark.format
MarkFormat(mark) == IF mark # "" THEN "\t" \o mark ELSE mark

markFuncEnd == FUNC_END

-----------------------------------------------------------------------------
(* class Symbol, class NonSymbol *)

\* Symbol.__init__: the assertion on the name, and Mark()'s on the mark
SymbolOk(name, mark) == (mark = FUNC_END \/ name # "") /\ MarkOk(mark)

Symbol(name, mark) == [cls |-> "Symbol", mark |-> mark, name |-> name]

\* NonSymbol.__init__
NonSymbolOk(val) == val # ""

NonSymbol(val) == [cls |-> "NonSymbol", text |-> val]

isSymbol(x) == x.cls = "Symbol"

isNonSymbol(x) == x.cls = "NonSymbol"

\* Symbol.hasMark
hasMark(s, mark) == s.mark = mark

\* Symbol.__add__: the assertion that both marks are the same
SymbolAddOk(self, other) == self.mark = other.mark

\* A Symbol.__add__ that joins the names with a space, as NonSymbol.__add__
SymbolAddSpaced(self, other) == [self EXCEPT !.name = self.name \o " " \o other.name]

\* Symbol.__add__
SymbolAdd(self, other) == [self EXCEPT !.name = self.name \o other.name]

\* NonSymbol.__add__
NonSymbolAdd(self, other) == [self EXCEPT !.text = self.text \o " " \o other.text]

\* Symbol.format, NonSymbol.format
RunFormat(item) ==
    IF isSymbol(item) THEN MarkFormat(item.mark) \o item.name ELSE item.text

-----------------------------------------------------------------------------
(* class Line *)

\* Line.__init__: the assertion on the number
LineOk(num) == num > 0

Line(num) == [lineno |-> num, contents |-> <<>>, hasSymbol |-> FALSE]

\* ctx.line = None
None == [lineno |-> 0, contents |-> <<>>, hasSymbol |-> FALSE]

Last(s) == s[Len(s)]

ReplaceLast(s, x) == [s EXCEPT ![Len(s)] = x]

\* Line.__add__ raises AssertionError (from Symbol.__add__)
LineAddFails(self, other) ==
    /\ ~(self.contents # <<>> /\ isSymbol(other) /\ hasMark(other, markFuncEnd))
    /\ self.contents # <<>>
    /\ isSymbol(Last(self.contents)) /\ isSymbol(other)
    /\ ~SymbolAddOk(Last(self.contents), other)

\* A Line.__add__ that puts a function end directly after a Symbol
LineAddFuncEndNoSpace(self, other) ==
    [self EXCEPT !.contents = Append(self.contents, other), !.hasSymbol = TRUE]

\* Line.__add__: a function end marker added to a line that is not empty
LineAddFuncEnd(self, other) ==
    [self EXCEPT
        !.contents = (IF isSymbol(Last(self.contents))
                      THEN Append(self.contents, NonSymbol(" "))
                      ELSE self.contents) \o <<other>>,
        !.hasSymbol = TRUE]

\* A Line.__add__ that appends every run, merging none
LineAddNoMerge(self, other) ==
    [self EXCEPT
        !.contents = Append(self.contents, other),
        !.hasSymbol = self.hasSymbol \/ isSymbol(other)]

\* Line.__add__ when it raises nothing
LineAdd(self, other) ==
    IF self.contents # <<>> /\ isSymbol(other) /\ hasMark(other, markFuncEnd)
    THEN LineAddFuncEnd(self, other)
    ELSE IF self.contents # <<>>
            /\ \/ isNonSymbol(Last(self.contents)) /\ isNonSymbol(other)
               \/ isSymbol(Last(self.contents)) /\ isSymbol(other)
    THEN [self EXCEPT
            !.contents = ReplaceLast(self.contents,
                            IF isSymbol(other)
                            THEN SymbolAdd(Last(self.contents), other)
                            ELSE NonSymbolAdd(Last(self.contents), other))]
    ELSE [self EXCEPT
            !.contents = Append(self.contents, other),
            !.hasSymbol = self.hasSymbol \/ isSymbol(other)]

\* "%d" % n
RECURSIVE ToDec(_)
ToDec(n) ==
    IF n < 10 THEN SubSeq("0123456789", n + 1, n + 1)
    ELSE ToDec(n \div 10) \o SubSeq("0123456789", (n % 10) + 1, (n % 10) + 1)

\* "\n".join(buff)
RECURSIVE JoinNl(_)
JoinNl(buff) ==
    IF buff = <<>> THEN ""
    ELSE IF Len(buff) = 1 THEN buff[1]
    ELSE buff[1] \o "\n" \o JoinNl(Tail(buff))

\* Line.format: the loop over contents[1:], buff being the strings so far
RECURSIVE FormatRest(_, _, _)
FormatRest(contents, i, buff) ==
    IF i > Len(contents) THEN buff
    ELSE LET item == contents[i]
             s == RunFormat(item)
         IN IF isSymbol(item)
            THEN FormatRest(contents, i + 1,
                    Append(IF Last(buff) # " "
                           THEN ReplaceLast(buff, Last(buff) \o " ")
                           ELSE buff, s))
            ELSE FormatRest(contents, i + 1,
                    Append(buff, IF s # " " THEN " " \o s ELSE s))

\* Line.format
LineFormat(self) ==
    IF ~self.hasSymbol THEN ""
    ELSE LET item == self.contents[1]
             first == IF isSymbol(item)
                      THEN <<ToDec(self.lineno) \o " ", RunFormat(item)>>
                      ELSE <<ToDec(self.lineno) \o " " \o RunFormat(item)>>
         IN JoinNl(FormatRest(self.contents, 2, first)) \o "\n\n"

-----------------------------------------------------------------------------
(* Concrete syntax trees: cst.totuple(True) *)

\* token.*: the kinds of terminals the grammar of the modelled files uses
Tokens == {"ENDMARKER", "NAME", "NUMBER", "STRING", "NEWLINE", "INDENT", "DEDENT",
           "LPAR", "RPAR", "LSQB", "RSQB", "COLON", "COMMA", "SEMI", "PLUS",
           "EQUAL", "DOT", "PLUSEQUAL", "AT", "DOUBLESTAR"}

\* token.ISNONTERMINAL, token.ISEOF
ISNONTERMINAL(x) == x \notin Tokens

ISEOF(x) == x = "ENDMARKER"

\* A terminal (kind, text, line) and a non-terminal (kind, child, ...)
T(kind, text, line) == [kind |-> kind, text |-> text, line |-> line, kids |-> <<>>]

N(kind, kids) == [kind |-> kind, text |-> "", line |-> 0, kids |-> kids]

\* len(cst), cst[i] for i >= 1 and cst[-i]
PyLen(cst) == IF ISNONTERMINAL(cst.kind) THEN 1 + Len(cst.kids) ELSE 3

Child(cst, i) == cst.kids[i]

ChildFromEnd(cst, i) == cst.kids[Len(cst.kids) + 1 - i]

\* The node of tree cst whose path from the root is path
RECURSIVE NodeAt(_, _)
NodeAt(cst, path) ==
    IF path = <<>> THEN cst ELSE NodeAt(cst.kids[Head(path)], Tail(path))

valid_tokens_for_marks == {"NAME", "DOT"}

valid_tokens_for_import == {"DOT"}

\* keyword.kwlist of Python 2.7, extended at module load
kwlist == {"and", "as", "assert", "break", "class", "continue", "def", "del",
           "elif", "else", "except", "exec", "finally", "for", "from", "global",
           "if", "import", "in", "is", "lambda", "not", "or", "pass", "print",
           "raise", "return", "try", "while", "with", "yield",
           "True", "False", "None"}

-----------------------------------------------------------------------------
(* class Context *)

\* Context.__init__.  marks maps id(node) to a mark; tests holds the ids of
\* the pending assignment targets (the dictionary maps id(node) to the node
\* itself).  exc is the exception that ended the use of this context, "" if
\* none: once it is raised, nothing more is done.
Context == [buff |-> <<>>, line |-> Line(1), marks |-> <<>>, indent_lvl |-> 0,
            func_def_lvl |-> -1, import_cnt |-> 0, import_name |-> FALSE,
            tests |-> {}, power_do_assignment |-> FALSE, exc |-> ""]

Raise(c, e) == IF c.exc # "" THEN c ELSE [c EXCEPT !.exc = e]

MapPut(m, k, v) == [i \in DOMAIN m \cup {k} |-> IF i = k THEN v ELSE m[i]]

MapDel(m, k) == [i \in DOMAIN m \ {k} |-> m[i]]

\* Context.setMark(tup, mark), idx being id(tup) and kind tup[0]
setMark(c, idx, kind, mark) ==
    IF c.exc # "" THEN c
    ELSE IF idx \in DOMAIN c.marks THEN Raise(c, "AssertionError")
    ELSE IF kind \notin valid_tokens_for_marks THEN Raise(c, "AssertionError")
    ELSE [c EXCEPT !.marks = MapPut(c.marks, idx, mark)]

\* A getMark that keeps the association
getMarkKeep(c, idx) ==
    IF c.exc # "" THEN c
    ELSE IF idx \notin DOMAIN c.marks THEN Raise(c, "AssertionError")
    ELSE c

\* Context.getMark(tup): the context it leaves
getMark(c, idx) ==
    IF c.exc # "" THEN c
    ELSE IF idx \notin DOMAIN c.marks THEN Raise(c, "AssertionError")
    ELSE [c EXCEPT !.marks = MapDel(c.marks, idx)]

\* Context.getMark(tup): the mark it returns
getMarkValue(c, idx) == c.marks[idx]

\* A commit that appends the formatted line whatever it is
commitBuffUnfiltered(c, line) == Append(c.buff, line)

\* Context.commit: the buffer after line = str(self.line) is handled
commitBuff(c, line) == IF line # "" THEN Append(c.buff, line) ELSE c.buff

\* A Context.commit that forgets the line it ends
commitDiscard(c, num) ==
    IF c.exc # "" THEN c
    ELSE IF num # 0
    THEN IF LineOk(num) THEN [c EXCEPT !.line = Line(num)]
         ELSE Raise(c, "AssertionError")
    ELSE [c EXCEPT !.line = None]

\* Context.commit(lineno); lineno = 0 stands for commit()
commit(c, num) ==
    IF c.exc # "" THEN c
    ELSE LET line == LineFormat(c.line)
             b == commitBuff(c, line)
         IN IF num # 0
            THEN IF LineOk(num)
                 THEN [c EXCEPT !.buff = b, !.line = Line(num)]
                 ELSE Raise([c EXCEPT !.buff = b], "AssertionError")
            ELSE [c EXCEPT !.buff = b, !.line = None]

\* ctx.line += run
AddRun(c, run) ==
    IF c.exc # "" THEN c
    ELSE IF LineAddFails(c.line, run) THEN Raise(c, "AssertionError")
    ELSE [c EXCEPT !.line = LineAdd(c.line, run)]

\* ctx.line += Symbol(name, mark), with the constructor's assertion
AddSymbol(c, name, mark) ==
    IF ~SymbolOk(name, mark) THEN Raise(c, "AssertionError")
    ELSE AddRun(c, Symbol(name, mark))

\* ctx.line += NonSymbol(val), with the constructor's assertion
AddNonSymbol(c, val) ==
    IF ~NonSymbolOk(val) THEN Raise(c, "AssertionError")
    ELSE AddRun(c, NonSymbol(val))

-----------------------------------------------------------------------------
(* processTerminal *)

Chars(s) == {SubSeq(s, i, i) : i \in 1..Len(s)}

IdentStart == Chars("ABCDEFGHIJKLMNOPQRSTUVWXYZabcdefghijklmnopqrstuvwxyz_")

IdentChar == IdentStart \cup Chars("0123456789")

StartsWith(s, p) == Len(s) >= Len(p) /\ SubSeq(s, 1, Len(p)) = p

EndsWith(s, p) == Len(s) >= Len(p) /\ SubSeq(s, Len(s) - Len(p) + 1, Len(s)) = p

Quotes == {"'", "\"", "'''", "\"\"\""}

\* re.search("^('|\"|'''|\"\"\")[A-Za-z_][A-Za-z_0-9]*('|\"|'''|\"\"\")$", s)
\* on the whole of s
QuotedIdentExact(s) ==
    \E q1 \in Quotes, q2 \in Quotes :
        /\ Len(s) >= Len(q1) + Len(q2) + 1
        /\ StartsWith(s, q1) /\ EndsWith(s, q2)
        /\ SubSeq(s, Len(q1) + 1, Len(q1) + 1) \in IdentStart
        /\ \A i \in (Len(q1) + 2)..(Len(s) - Len(q2)) : SubSeq(s, i, i) \in IdentChar

\* the same search, where $ also matches before a final newline
QuotedIdent(s) ==
    \/ QuotedIdentExact(s)
    \/ EndsWith(s, "\n") /\ QuotedIdentExact(SubSeq(s, 1, Len(s) - 1))

\* s.replace("\n", "\\n")
RECURSIVE EscapeNl(_)
EscapeNl(s) ==
    IF s = "" THEN ""
    ELSE (IF Head(s) = "\n" THEN "\\n" ELSE Head(s)) \o EscapeNl(Tail(s))

\* processTerminal: a DEDENT
ProcessDedent(c) ==
    LET c1 == [c EXCEPT !.indent_lvl = c.indent_lvl - 1]
    IN IF c1.indent_lvl = c1.func_def_lvl
       THEN AddSymbol([c1 EXCEPT !.func_def_lvl = -1], "", FUNC_END)
       ELSE c1

\* A handler of the change of line that commits at every terminal
ProcessLineChangeAlways(c, cst) ==
    IF cst.kind # "STRING" THEN commit(c, cst.line) ELSE c

\* processTerminal: the commit on a change of line number
ProcessLineChange(c, cst) ==
    IF cst.line # c.line.lineno /\ cst.kind # "STRING"
    THEN commit(c, cst.line)
    ELSE c

\* A token handler that leaves the mark of a reserved word in the map
ProcessTokenKeepMark(c, cst, idx, sas) ==
    IF c.exc # "" THEN c
    ELSE IF cst.kind = "NEWLINE" THEN c
    ELSE IF cst.kind = "INDENT" THEN [c EXCEPT !.indent_lvl = c.indent_lvl + 1]
    ELSE IF cst.kind = "STRING"
    THEN IF sas /\ QuotedIdent(cst.text)
         THEN AddNonSymbol(AddSymbol(AddNonSymbol(c, "[["), cst.text, ""), "]]")
         ELSE AddNonSymbol(c, EscapeNl(cst.text))
    ELSE IF cst.kind = "NAME"
    THEN IF cst.text \in kwlist
         THEN AddNonSymbol(c, cst.text)
         ELSE IF idx \in DOMAIN c.marks
              THEN AddSymbol(getMark(c, idx), cst.text, getMarkValue(c, idx))
              ELSE AddSymbol(c, cst.text, "")
    ELSE IF cst.kind = "DOT" /\ idx \in DOMAIN c.marks
    THEN AddSymbol(getMark(c, idx), cst.text, getMarkValue(c, idx))
    ELSE IF ISEOF(cst.kind) THEN commit(c, 0)
    ELSE AddNonSymbol(c, cst.text)

\* processTerminal: the token itself, idx being id(cst) and sas the global
\* strings_as_symbols
ProcessToken(c, cst, idx, sas) ==
    IF c.exc # "" THEN c
    ELSE IF cst.kind = "NEWLINE" THEN c
    ELSE IF cst.kind = "INDENT" THEN [c EXCEPT !.indent_lvl = c.indent_lvl + 1]
    ELSE IF cst.kind = "STRING"
    THEN IF sas /\ QuotedIdent(cst.text)
         THEN AddNonSymbol(AddSymbol(AddNonSymbol(c, "[["), cst.text, ""), "]]")
         ELSE AddNonSymbol(c, EscapeNl(cst.text))
    ELSE IF cst.kind = "NAME"
    THEN IF cst.text \in kwlist
         THEN AddNonSymbol(IF idx \in DOMAIN c.marks THEN getMark(c, idx) ELSE c,
                           cst.text)
         ELSE IF idx \in DOMAIN c.marks
              THEN AddSymbol(getMark(c, idx), cst.text, getMarkValue(c, idx))
              ELSE AddSymbol(c, cst.text, "")
    ELSE IF cst.kind = "DOT" /\ idx \in DOMAIN c.marks
    THEN AddSymbol(getMark(c, idx), cst.text, getMarkValue(c, idx))
    ELSE IF ISEOF(cst.kind) THEN commit(c, 0)
    ELSE AddNonSymbol(c, cst.text)

\* A processTerminal that handles a DEDENT after the change of line number
processTerminalDedentLate(c, cst, idx, sas) ==
    IF cst.kind = "DEDENT" THEN ProcessDedent(ProcessLineChange(c, cst))
    ELSE ProcessToken(ProcessLineChange(c, cst), cst, idx, sas)

\* processTerminal(ctx, cst); it returns cst.line
processTerminal(c, cst, idx, sas) ==
    IF cst.kind = "DEDENT" THEN ProcessDedent(c)
    ELSE ProcessToken(ProcessLineChange(c, cst), cst, idx, sas)

-----------------------------------------------------------------------------
(* processNonTerminal.  cst is the node, path its identity; the identity of *)
(* its i-th child is Append(path, i).                                       *)

tse == "testlist"

test_or_star_expr == {"test"}

testlist_comp == {"testlist_comp", "listmaker"}

\* isNamedFuncCall(cst, cst_len)
isNamedFuncCall(cst, cst_len) ==
    IF cst_len < 3 THEN FALSE
    ELSE /\ Child(cst, 1).kind = "atom"
         /\ Child(Child(cst, 1), 1).kind = "NAME"
         /\ Child(cst, 2).kind = "trailer"
         /\ Child(Child(cst, 2), 1).kind = "LPAR"
         /\ ChildFromEnd(Child(cst, 2), 1).kind = "RPAR"

\* isTrailerFuncCall(cst, idx, cst_len)
isTrailerFuncCall(cst, idx, cst_len) ==
    /\ Child(cst, idx).kind = "trailer"
    /\ Child(Child(cst, idx), 1).kind = "DOT"
    /\ Child(Child(cst, idx), 2).kind = "NAME"
    /\ Child(cst, idx + 1).kind = "trailer"
    /\ Child(Child(cst, idx + 1), 1).kind = "LPAR"
    /\ ChildFromEnd(Child(cst, idx + 1), 1).kind = "RPAR"

\* markTestlist(ctx, cst): the loop from index i on
RECURSIVE markTestlistFrom(_, _, _, _)
markTestlistFrom(c, cst, path, i) ==
    IF i > PyLen(cst) - 1 \/ c.exc # "" THEN c
    ELSE IF Child(cst, i).kind = "COMMA" THEN markTestlistFrom(c, cst, path, i + 1)
    ELSE IF Child(cst, i).kind \notin test_or_star_expr THEN c
    ELSE markTestlistFrom([c EXCEPT !.tests = c.tests \cup {Append(path, i)}],
                          cst, path, i + 1)

\* markTestlist(ctx, cst)
markTestlist(c, cst, path) ==
    IF c.exc # "" THEN c
    ELSE IF cst.kind # tse THEN Raise(c, "AssertionError")
    ELSE markTestlistFrom(c, cst, path, 1)

\* global_stmt: the loop over range(2, len(cst)) from index i on
RECURSIVE GlobalFrom(_, _, _, _)
GlobalFrom(c, cst, path, i) ==
    IF i > PyLen(cst) - 1 \/ c.exc # "" THEN c
    ELSE IF i % 2 # 0 THEN GlobalFrom(c, cst, path, i + 1)
    ELSE IF Child(cst, i).kind # "NAME" THEN Raise(c, "AssertionError")
    ELSE GlobalFrom(setMark(c, Append(path, i), Child(cst, i).kind, GLOBAL),
                    cst, path, i + 1)

\* funcdef
FuncDef(c, cst, path) ==
    IF c.func_def_lvl = -1
    THEN LET c1 == [c EXCEPT !.func_def_lvl = c.indent_lvl]
             idx == IF Child(cst, 1).kind = "decorators" THEN 2 ELSE 1
         IN IF ~(Child(cst, idx).kind = "NAME" /\ Child(cst, idx).text = "def")
            THEN Raise(c1, "AssertionError")
            ELSE setMark(c1, Append(path, idx + 1), Child(cst, idx + 1).kind, FUNC_DEF)
    ELSE c

\* decorated: one decorator, dcst = cst[1][i]
Decorator(c, dcst, dpath) ==
    IF c.exc # "" THEN c
    ELSE IF dcst.kind # "decorator" THEN Raise(c, "AssertionError")
    ELSE IF Child(dcst, 1).kind # "AT" THEN Raise(c, "AssertionError")
    ELSE IF Child(dcst, 2).kind # "dotted_name" THEN Raise(c, "AssertionError")
    ELSE LET dotted == Child(dcst, 2)
             dotted_len == PyLen(dotted)
             last == ChildFromEnd(dotted, 1)
             lastId == dpath \o <<2, dotted_len - 1>>
         IN IF dotted_len < 2 THEN Raise(c, "AssertionError")
            ELSE IF dotted_len > 2 THEN setMark(c, lastId, last.kind, FUNC_CALL)
            ELSE IF last.kind # "NAME" THEN Raise(c, "AssertionError")
            ELSE IF last.text \notin {"property", "classmethod"}
                 THEN setMark(c, lastId, last.kind, FUNC_CALL)
                 ELSE c

\* decorated: the loop over range(1, len(dcsts)) from index i on
RECURSIVE DecoratorsFrom(_, _, _, _)
DecoratorsFrom(c, dcsts, dspath, i) ==
    IF i > PyLen(dcsts) - 1 \/ c.exc # "" THEN c
    ELSE DecoratorsFrom(Decorator(c, Child(dcsts, i), Append(dspath, i)),
                        dcsts, dspath, i + 1)

\* A marking of the children of a node that passes over the DOT tokens
RECURSIVE MarkAllFromNames(_, _, _, _, _)
MarkAllFromNames(c, node, npath, i, mark) ==
    IF i > PyLen(node) - 1 \/ c.exc # "" THEN c
    ELSE IF Child(node, i).kind = "DOT"
    THEN MarkAllFromNames(c, node, npath, i + 1, mark)
    ELSE MarkAllFromNames(setMark(c, Append(npath, i), Child(node, i).kind, mark),
                          node, npath, i + 1, mark)

\* ctx.setMark(node[i], mark) for i in range(from, len(node))
RECURSIVE MarkAllFrom(_, _, _, _, _)
MarkAllFrom(c, node, npath, i, mark) ==
    IF i > PyLen(node) - 1 \/ c.exc # "" THEN c
    ELSE MarkAllFrom(setMark(c, Append(npath, i), Child(node, i).kind, mark),
                     node, npath, i + 1, mark)

\* import_from: the index of the first child from 2 on that is no DOT
RECURSIVE SkipDots(_, _)
SkipDots(cst, dnidx) ==
    IF Child(cst, dnidx).kind \in valid_tokens_for_import
    THEN SkipDots(cst, dnidx + 1) ELSE dnidx

\* import_from
ImportFrom(c, cst, path) ==
    LET dnidx == SkipDots(cst, 2)
    IN IF Child(cst, dnidx).kind = "dotted_name"
       THEN MarkAllFrom(c, Child(cst, dnidx), Append(path, dnidx), 1, INCLUDE)
       ELSE c

\* A dotted_name handler that leaves the import mode as it is
DottedNameNoReset(c, cst, path) ==
    IF c.import_name
    THEN IF ~(c.import_cnt >= 1) THEN Raise(c, "AssertionError")
         ELSE MarkAllFrom(c, cst, path, 1, INCLUDE)
    ELSE c

\* dotted_name
DottedName(c, cst, path) ==
    IF c.import_name
    THEN IF ~(c.import_cnt >= 1) THEN Raise(c, "AssertionError")
         ELSE LET c1 == MarkAllFrom(c, cst, path, 1, INCLUDE)
              IN IF c1.exc # "" THEN c1
                 ELSE [c1 EXCEPT !.import_cnt = c.import_cnt - 1,
                                 !.import_name = (c.import_cnt - 1 # 0)]
    ELSE c

\* A loop over the lists of an assignment that goes on to the value
RECURSIVE ExprStmtFromAll(_, _, _, _)
ExprStmtFromAll(c, cst, path, i) ==
    IF i > PyLen(cst) - 1 \/ c.exc # "" THEN c
    ELSE IF Child(cst, i).kind = "EQUAL" THEN ExprStmtFromAll(c, cst, path, i + 1)
    ELSE IF Child(cst, i).kind # tse THEN c
    ELSE ExprStmtFromAll(markTestlist(c, Child(cst, i), Append(path, i)),
                         cst, path, i + 1)

\* expr_stmt: the loop over range(3, l - 1) from index i on
RECURSIVE ExprStmtFrom(_, _, _, _)
ExprStmtFrom(c, cst, path, i) ==
    IF i > PyLen(cst) - 2 \/ c.exc # "" THEN c
    ELSE IF Child(cst, i).kind = "EQUAL" THEN ExprStmtFrom(c, cst, path, i + 1)
    ELSE IF Child(cst, i).kind # tse THEN c
    ELSE ExprStmtFrom(markTestlist(c, Child(cst, i), Append(path, i)),
                      cst, path, i + 1)

\* expr_stmt
ExprStmt(c, cst, path) ==
    IF PyLen(cst) >= 4
    THEN IF Child(cst, 1).kind # tse THEN Raise(c, "AssertionError")
         ELSE IF Child(cst, 2).kind = "augassign"
                 /\ Child(cst, 3).kind \in {"testlist", "yield_expr"}
         THEN IF Child(Child(cst, 1), 1).kind # "test" THEN Raise(c, "AssertionError")
              ELSE [c EXCEPT !.tests = c.tests \cup {path \o <<1, 1>>}]
         ELSE IF Child(cst, 2).kind = "EQUAL"
         THEN ExprStmtFrom(markTestlist(c, Child(cst, 1), Append(path, 1)),
                           cst, path, 3)
         ELSE c
    ELSE c

\* A test handler that leaves the node in the pending set
TestKeep(c, cst, path) ==
    IF path \in c.tests
    THEN IF c.power_do_assignment
         THEN Raise(c, "AssertionError")
         ELSE [c EXCEPT !.power_do_assignment = TRUE]
    ELSE c

\* test: the node is a pending assignment target
Test(c, cst, path) ==
    IF path \in c.tests
    THEN IF c.power_do_assignment
         THEN Raise([c EXCEPT !.tests = c.tests \ {path}], "AssertionError")
         ELSE [c EXCEPT !.tests = c.tests \ {path}, !.power_do_assignment = TRUE]
    ELSE c

\* classdef
ClassDef(c, cst, path) ==
    IF ~(Child(cst, 1).kind = "NAME" /\ Child(cst, 1).text = "class")
    THEN Raise(c, "AssertionError")
    ELSE setMark(c, Append(path, 2), Child(cst, 2).kind, CLASS)

\* A loop over the entries of a list that stops after the first one
PowerListFromOne(c, lst, lpath, i) ==
    IF i > PyLen(lst) - 1 THEN c
    ELSE IF Child(lst, i).kind # "test" THEN c
    ELSE [c EXCEPT !.tests = c.tests \cup {Append(lpath, i)}]

\* power: the elements of a bracketed target list, from index i on
RECURSIVE PowerListFrom(_, _, _, _)
PowerListFrom(c, lst, lpath, i) ==
    IF i > PyLen(lst) - 1 THEN c
    ELSE IF Child(lst, i).kind = "COMMA" THEN PowerListFrom(c, lst, lpath, i + 1)
    ELSE IF Child(lst, i).kind # "test" THEN c
    ELSE PowerListFrom([c EXCEPT !.tests = c.tests \cup {Append(lpath, i)}],
                       lst, lpath, i + 1)

\* power: the resolution of an assignment target
PowerAssign(c, cst, path) ==
    LET l_cst == PyLen(cst)
        c1 == [c EXCEPT !.power_do_assignment = FALSE]
        last == ChildFromEnd(cst, 1)
        prev == ChildFromEnd(cst, 2)
    IN IF l_cst = 2 /\ Child(cst, 1).kind = "atom"
       THEN LET atom == Child(cst, 1)
            IN IF PyLen(atom) = 2 /\ Child(atom, 1).kind = "NAME"
               THEN setMark(c1, path \o <<1, 1>>, Child(atom, 1).kind, ASSIGN)
               ELSE IF /\ PyLen(atom) = 4
                       /\ Child(atom, 1).kind \in {"LPAR", "LSQB"}
                       /\ Child(atom, 2).kind \in testlist_comp
                       /\ Child(atom, 3).kind \in {"RPAR", "RSQB"}
               THEN PowerListFrom(c1, Child(atom, 2), path \o <<1, 2>>, 1)
               ELSE c1
       ELSE IF /\ l_cst = 3
               /\ Child(cst, 1).kind = "atom"
               /\ PyLen(Child(cst, 1)) = 2
               /\ Child(Child(cst, 1), 1).kind = "NAME"
               /\ PyLen(Child(cst, 2)) >= 4
               /\ Child(cst, 2).kind = "trailer"
               /\ Child(Child(cst, 2), 1).kind = "LSQB"
               /\ ChildFromEnd(Child(cst, 2), 1).kind = "RSQB"
       THEN setMark(c1, path \o <<1, 1>>, Child(Child(cst, 1), 1).kind, ASSIGN)
       ELSE IF /\ l_cst >= 3
               /\ PyLen(last) = 3
               /\ last.kind = "trailer"
               /\ Child(last, 1).kind = "DOT"
               /\ Child(last, 2).kind = "NAME"
       THEN setMark(c1, path \o <<l_cst - 1, 2>>, Child(last, 2).kind, ASSIGN)
       ELSE IF /\ l_cst >= 4
               /\ PyLen(prev) = 3
               /\ prev.kind = "trailer"
               /\ Child(prev, 1).kind = "DOT"
               /\ Child(prev, 2).kind = "NAME"
               /\ PyLen(last) >= 4
               /\ last.kind = "trailer"
               /\ Child(last, 1).kind = "LSQB"
               /\ ChildFromEnd(last, 1).kind = "RSQB"
       THEN setMark(c1, path \o <<l_cst - 2, 2>>, Child(prev, 2).kind, ASSIGN)
       ELSE c1

\* A loop over the trailers that stops one short of the last pair
RECURSIVE PowerCallsFromShort(_, _, _, _)
PowerCallsFromShort(c, cst, path, i) ==
    IF i > PyLen(cst) - 3 \/ c.exc # "" THEN c
    ELSE PowerCallsFromShort(
            IF isTrailerFuncCall(cst, i, PyLen(cst))
            THEN setMark(c, path \o <<i, 2>>, Child(Child(cst, i), 2).kind, FUNC_CALL)
            ELSE c,
            cst, path, i + 1)

\* power: the loop over range(1, l_cst - 1) from index i on
RECURSIVE PowerCallsFrom(_, _, _, _)
PowerCallsFrom(c, cst, path, i) ==
    IF i > PyLen(cst) - 2 \/ c.exc # "" THEN c
    ELSE PowerCallsFrom(
            IF isTrailerFuncCall(cst, i, PyLen(cst))
            THEN setMark(c, path \o <<i, 2>>, Child(Child(cst, i), 2).kind, FUNC_CALL)
            ELSE c,
            cst, path, i + 1)

\* A power handler that looks for calls only when it resolves no target
PowerEither(c, cst, path) ==
    IF c.power_do_assignment THEN PowerAssign(c, cst, path)
    ELSE PowerCallsFrom(
            IF isNamedFuncCall(cst, PyLen(cst))
            THEN setMark(c, path \o <<1, 1>>, Child(Child(cst, 1), 1).kind, FUNC_CALL)
            ELSE c,
            cst, path, 1)

\* power
Power(c, cst, path) ==
    LET c1 == IF c.power_do_assignment THEN PowerAssign(c, cst, path) ELSE c
        c2 == IF isNamedFuncCall(cst, PyLen(cst))
              THEN setMark(c1, path \o <<1, 1>>, Child(Child(cst, 1), 1).kind, FUNC_CALL)
              ELSE c1
    IN IF c1.exc # "" THEN c1 ELSE PowerCallsFrom(c2, cst, path, 1)

\* processNonTerminal(ctx, cst)
processNonTerminal(c, cst, path) ==
    IF cst.kind = "global_stmt" THEN GlobalFrom(c, cst, path, 2)
    ELSE IF cst.kind = "funcdef" THEN FuncDef(c, cst, path)
    ELSE IF /\ cst.kind = "decorated"
            /\ Child(cst, 1).kind = "decorators"
            /\ Child(cst, 2).kind = "funcdef"
    THEN DecoratorsFrom(c, Child(cst, 1), Append(path, 1), 1)
    ELSE IF cst.kind = "import_from" THEN ImportFrom(c, cst, path)
    ELSE IF cst.kind = "import_name" THEN [c EXCEPT !.import_name = TRUE]
    ELSE IF cst.kind = "dotted_as_names" /\ c.import_name
    THEN [c EXCEPT !.import_cnt = PyLen(cst) \div 2]
    ELSE IF cst.kind = "dotted_name" THEN DottedName(c, cst, path)
    ELSE IF cst.kind = "expr_stmt" THEN ExprStmt(c, cst, path)
    ELSE IF cst.kind \in test_or_star_expr THEN Test(c, cst, path)
    ELSE IF cst.kind = "classdef" THEN ClassDef(c, cst, path)
    ELSE IF cst.kind = "power" THEN Power(c, cst, path)
    ELSE c

-----------------------------------------------------------------------------
(* The files: what open() and parser.suite(sourcecode).totuple(True) give   *)
(* for each name.  The trees follow the Python 2.7 grammar.                 *)

\* test -> or_test -> ... -> factor -> power, around one power node
TestOf(power) ==
    N("test", <<N("or_test", <<N("and_test", <<N("not_test", <<N("comparison",
    <<N("expr", <<N("xor_expr", <<N("and_expr", <<N("shift_expr",
    <<N("arith_expr", <<N("term", <<N("factor", <<power>>)>>)>>)>>)>>)>>)>>)>>)>>)>>)>>)>>)

NameTest(text, line) == TestOf(N("power", <<N("atom", <<T("NAME", text, line)>>)>>))

NumberTest(text, line) == TestOf(N("power", <<N("atom", <<T("NUMBER", text, line)>>)>>))

StringTest(text, line) == TestOf(N("power", <<N("atom", <<T("STRING", text, line)>>)>>))

\* stmt -> simple_stmt -> small_stmt NEWLINE
SimpleStmt(small, line) ==
    N("stmt", <<N("simple_stmt", <<N("small_stmt", <<small>>), T("NEWLINE", "", line)>>)>>)

\* an expression statement made of one test
ExprOf(test) == N("expr_stmt", <<N("testlist", <<test>>)>>)

\* target = value
AssignOf(target, value, line) ==
    N("expr_stmt", <<N("testlist", <<target>>), T("EQUAL", "=", line),
                     N("testlist", <<value>>)>>)

PassStmt(line) == N("pass_stmt", <<T("NAME", "pass", line)>>)

\* global name
GlobalStmt(name, line) ==
    N("global_stmt", <<T("NAME", "global", line), T("NAME", name, line)>>)

ReturnStmt(test, line) ==
    N("flow_stmt", <<N("return_stmt", <<T("NAME", "return", line), N("testlist", <<test>>)>>)>>)

\* suite: NEWLINE INDENT stmt+ DEDENT
Block(nl, stmts, dedent) ==
    N("suite", <<T("NEWLINE", "", nl), T("INDENT", "", nl + 1)>> \o stmts
                \o <<T("DEDENT", "", dedent)>>)

\* suite: simple_stmt
Inline(small, line) ==
    N("suite", <<N("simple_stmt", <<N("small_stmt", <<small>>), T("NEWLINE", "", line)>>)>>)

\* stmt -> compound_stmt -> funcdef: def name(): suite
DefStmt(name, line, suite) ==
    N("stmt", <<N("compound_stmt", <<N("funcdef",
        <<T("NAME", "def", line), T("NAME", name, line),
          N("parameters", <<T("LPAR", "(", line), T("RPAR", ")", line)>>),
          T("COLON", ":", line), suite>>)>>)>>)

\* stmt -> compound_stmt -> classdef: class name: suite
ClassStmt(name, line, suite) ==
    N("stmt", <<N("compound_stmt", <<N("classdef",
        <<T("NAME", "class", line), T("NAME", name, line),
          T("COLON", ":", line), suite>>)>>)>>)

FileInput(stmts, last) == N("file_input", stmts \o <<T("ENDMARKER", "", last)>>)

\* def foo():
\*     return 1
CstA ==
    FileInput(<<DefStmt("foo", 1,
                  Block(1, <<SimpleStmt(ReturnStmt(NumberTest("1", 2), 2), 2)>>, 3))>>, 3)

\* def f(): pass
\* def g():
\*     return x
CstB ==
    FileInput(<<DefStmt("f", 1, Inline(PassStmt(1), 1)),
                DefStmt("g", 2,
                  Block(2, <<SimpleStmt(ReturnStmt(NameTest("x", 3), 3), 3)>>, 4))>>, 4)

\* class C:
\*     def m():
\*         def n():
\*             pass
\*         return n
\* def h(): pass
CstC ==
    FileInput(<<ClassStmt("C", 1,
                  Block(1, <<DefStmt("m", 2,
                      Block(2, <<DefStmt("n", 3,
                                   Block(3, <<SimpleStmt(PassStmt(4), 4)>>, 5)),
                                 SimpleStmt(ReturnStmt(NameTest("n", 5), 5), 5)>>, 6))>>,
                    6)),
                DefStmt("h", 6, Inline(PassStmt(6), 6))>>, 7)

\* x = 1
\* "doc"
\* y
CstD ==
    FileInput(<<SimpleStmt(AssignOf(NameTest("x", 1), NumberTest("1", 1), 1), 1),
                SimpleStmt(ExprOf(StringTest("\"doc\"", 2)), 2),
                SimpleStmt(ExprOf(NameTest("y", 3)), 3)>>, 4)

\* x = """a
\* b"""
CstS ==
    FileInput(<<SimpleStmt(AssignOf(NameTest("x", 1),
                                    StringTest("\"\"\"a\nb\"\"\"", 2), 1), 2)>>, 3)

\* global x
\* global y
\* @d
\* def f(): pass
\* as the parser of Python 3.9 gives it: there a decorator is '@'
\* namedexpr_test NEWLINE, and the assertion of the decorator recognizer on
\* dotted_name fails
CstH ==
    FileInput(<<SimpleStmt(GlobalStmt("x", 1), 1),
                SimpleStmt(GlobalStmt("y", 2), 2),
                N("stmt", <<N("compound_stmt", <<N("decorated",
                    <<N("decorators", <<N("decorator",
                        <<T("AT", "@", 3),
                          N("namedexpr_test", <<TestOf(N("power",
                              <<N("atom_expr", <<N("atom",
                                  <<T("NAME", "d", 3)>>)>>)>>))>>),
                          T("NEWLINE", "", 3)>>)>>),
                      N("funcdef",
                        <<T("NAME", "def", 4), T("NAME", "f", 4),
                          N("parameters", <<T("LPAR", "(", 4), T("RPAR", ")", 4)>>),
                          T("COLON", ":", 4), Inline(PassStmt(4), 4)>>)>>)>>)>>)>>, 5)

\* The nodes of a list with a COMMA between each two
RECURSIVE CommaSep(_, _)
CommaSep(nodes, line) ==
    IF Len(nodes) <= 1 THEN nodes
    ELSE <<Head(nodes), T("COMMA", ",", line)>> \o CommaSep(Tail(nodes), line)

\* The children of dotted_name: NAME ('.' NAME)*
RECURSIVE DottedKids(_, _)
DottedKids(names, line) ==
    IF Len(names) = 1 THEN <<T("NAME", Head(names), line)>>
    ELSE <<T("NAME", Head(names), line), T("DOT", ".", line)>>
         \o DottedKids(Tail(names), line)

DottedNameOf(names, line) == N("dotted_name", DottedKids(names, line))

\* dotted_as_name: dotted_name ['as' NAME]; alias "" for none
DottedAsName(names, alias, line) ==
    N("dotted_as_name",
      <<DottedNameOf(names, line)>>
      \o (IF alias = "" THEN <<>>
          ELSE <<T("NAME", "as", line), T("NAME", alias, line)>>))

\* import dotted_as_name, ...
ImportStmt(modules, line) ==
    N("import_stmt", <<N("import_name",
        <<T("NAME", "import", line),
          N("dotted_as_names", CommaSep(modules, line))>>)>>)

\* from [.]names import name; dots is the number of leading dots
ImportFromStmt(dots, names, name, line) ==
    N("import_stmt", <<N("import_from",
        <<T("NAME", "from", line)>>
        \o [i \in 1..dots |-> T("DOT", ".", line)]
        \o <<DottedNameOf(names, line), T("NAME", "import", line),
             N("import_as_names", <<N("import_as_name",
                 <<T("NAME", name, line)>>)>>)>>)>>)

\* @names
\* def name(): pass
DecoratedDef(names, name, line) ==
    N("stmt", <<N("compound_stmt", <<N("decorated",
        <<N("decorators", <<N("decorator",
            <<T("AT", "@", line), DottedNameOf(names, line),
              T("NEWLINE", "", line)>>)>>),
          N("funcdef",
            <<T("NAME", "def", line + 1), T("NAME", name, line + 1),
              N("parameters", <<T("LPAR", "(", line + 1), T("RPAR", ")", line + 1)>>),
              T("COLON", ":", line + 1),
              Inline(PassStmt(line + 1), line + 1)>>)>>)>>)>>)

\* import os.path
CstI ==
    FileInput(<<SimpleStmt(ImportStmt(<<DottedAsName(<<"os", "path">>, "", 1)>>, 1), 1)>>, 2)

\* from .a.b import c
CstJ ==
    FileInput(<<SimpleStmt(ImportFromStmt(1, <<"a", "b">>, "c", 1), 1)>>, 2)

\* import True.x
\* (True is a NAME of the Python 2.7 grammar, and a word of kwlist)
CstK ==
    FileInput(<<SimpleStmt(ImportStmt(<<DottedAsName(<<"True", "x">>, "", 1)>>, 1), 1)>>, 2)

\* import a as b, c.d
\* @e.f
\* def g(): pass
CstM ==
    FileInput(<<SimpleStmt(ImportStmt(<<DottedAsName(<<"a">>, "b", 1),
                                        DottedAsName(<<"c", "d">>, "", 1)>>, 1), 1),
                DecoratedDef(<<"e", "f">>, "g", 2)>>, 4)

\* testlist: test (',' test)*
TestList(tests, line) == N("testlist", CommaSep(tests, line))

\* The nodes of a list with an EQUAL between each two
RECURSIVE EqualSep(_, _)
EqualSep(nodes, line) ==
    IF Len(nodes) <= 1 THEN nodes
    ELSE <<Head(nodes), T("EQUAL", "=", line)>> \o EqualSep(Tail(nodes), line)

\* t1 = t2 = ... = value, each a testlist
AssignChain(lists, line) == N("expr_stmt", EqualSep(lists, line))

\* target += value
AugAssignOf(target, value, line) ==
    N("expr_stmt", <<N("testlist", <<target>>),
                     N("augassign", <<T("PLUSEQUAL", "+=", line)>>),
                     N("testlist", <<value>>)>>)

\* a, b = c = d
\* x += y
CstN ==
    FileInput(<<SimpleStmt(AssignChain(<<TestList(<<NameTest("a", 1), NameTest("b", 1)>>, 1),
                                         TestList(<<NameTest("c", 1)>>, 1),
                                         TestList(<<NameTest("d", 1)>>, 1)>>, 1), 1),
                SimpleStmt(AugAssignOf(NameTest("x", 2), NameTest("y", 2), 2), 2)>>, 3)

\* trailer: '(' ')' | '[' subscriptlist ']' | '.' NAME
TrailerOf(shape, name, line) ==
    CASE shape = "call" -> N("trailer", <<T("LPAR", "(", line), T("RPAR", ")", line)>>)
      [] shape = "sub" ->
            N("trailer", <<T("LSQB", "[", line),
                           N("subscriptlist", <<N("subscript", <<NumberTest(name, line)>>)>>),
                           T("RSQB", "]", line)>>)
      [] shape = "dot" -> N("trailer", <<T("DOT", ".", line), T("NAME", name, line)>>)

\* A name followed by trailers, as a test
Chain(name, trailers, line) ==
    TestOf(N("power", <<N("atom", <<T("NAME", name, line)>>)>> \o trailers))

\* ( tests ) or [ tests ], as a test
ListTest(open, tests, line) ==
    TestOf(N("power", <<N("atom",
        IF open = "("
        THEN <<T("LPAR", "(", line), N("testlist_comp", CommaSep(tests, line)),
               T("RPAR", ")", line)>>
        ELSE <<T("LSQB", "[", line), N("listmaker", CommaSep(tests, line)),
               T("RSQB", "]", line)>>)>>))

\* f()
\* a.b()
\* a.b().c()
\* f().g()
CstP ==
    FileInput(<<SimpleStmt(ExprOf(Chain("f", <<TrailerOf("call", "", 1)>>, 1)), 1),
                SimpleStmt(ExprOf(Chain("a", <<TrailerOf("dot", "b", 2),
                                               TrailerOf("call", "", 2)>>, 2)), 2),
                SimpleStmt(ExprOf(Chain("a", <<TrailerOf("dot", "b", 3),
                                               TrailerOf("call", "", 3),
                                               TrailerOf("dot", "c", 3),
                                               TrailerOf("call", "", 3)>>, 3)), 3),
                SimpleStmt(ExprOf(Chain("f", <<TrailerOf("call", "", 4),
                                               TrailerOf("dot", "g", 4),
                                               TrailerOf("call", "", 4)>>, 4)), 4)>>, 5)

\* (u, [v, w]) = t
\* o.p = 1
\* q[0] = 1
\* r.s[0] = 1
\* a[0][1] = 1
CstQ ==
    FileInput(<<SimpleStmt(AssignOf(ListTest("(", <<NameTest("u", 1),
                                        ListTest("[", <<NameTest("v", 1), NameTest("w", 1)>>, 1)>>, 1),
                                    NameTest("t", 1), 1), 1),
                SimpleStmt(AssignOf(Chain("o", <<TrailerOf("dot", "p", 2)>>, 2),
                                    NumberTest("1", 2), 2), 2),
                SimpleStmt(AssignOf(Chain("q", <<TrailerOf("sub", "0", 3)>>, 3),
                                    NumberTest("1", 3), 3), 3),
                SimpleStmt(AssignOf(Chain("r", <<TrailerOf("dot", "s", 4),
                                                 TrailerOf("sub", "0", 4)>>, 4),
                                    NumberTest("1", 4), 4), 4),
                SimpleStmt(AssignOf(Chain("a", <<TrailerOf("sub", "0", 5),
                                                 TrailerOf("sub", "1", 5)>>, 5),
                                    NumberTest("1", 5), 5), 5)>>, 6)

\* x = f()
\* a.b().c = g()
CstT ==
    FileInput(<<SimpleStmt(AssignOf(NameTest("x", 1),
                                    Chain("f", <<TrailerOf("call", "", 1)>>, 1), 1), 1),
                SimpleStmt(AssignOf(Chain("a", <<TrailerOf("dot", "b", 2),
                                                 TrailerOf("call", "", 2),
                                                 TrailerOf("dot", "c", 2)>>, 2),
                                    Chain("g", <<TrailerOf("call", "", 2)>>, 2), 2), 2)>>, 3)

EmptyCst == FileInput(<<>>, 1)

\* A file: whether open() succeeds, whether its contents are empty, the line
\* of the SyntaxError parser.suite raises (0 if none), its tree
File(open, empty, syntax, cst) ==
    [open |-> open, empty |-> empty, syntax |-> syntax, cst |-> cst]

FileNames == {"a.py", "b.py", "c.py", "d.py", "s.py", "e.py", "f.py", "g.py", "h.py",
              "i.py", "j.py", "k.py", "m.py", "n.py",
              "p.py", "q.py", "t.py"}

FileOf(fname) ==
    CASE fname = "a.py" -> File(TRUE, FALSE, 0, CstA)
      [] fname = "b.py" -> File(TRUE, FALSE, 0, CstB)
      [] fname = "c.py" -> File(TRUE, FALSE, 0, CstC)
      [] fname = "d.py" -> File(TRUE, FALSE, 0, CstD)
      [] fname = "s.py" -> File(TRUE, FALSE, 0, CstS)
      [] fname = "e.py" -> File(TRUE, TRUE, 0, EmptyCst)
      [] fname = "f.py" -> File(FALSE, TRUE, 0, EmptyCst)
      [] fname = "g.py" -> File(TRUE, FALSE, 1, EmptyCst)
      [] fname = "h.py" -> File(TRUE, FALSE, 0, CstH)
      [] fname = "i.py" -> File(TRUE, FALSE, 0, CstI)
      [] fname = "j.py" -> File(TRUE, FALSE, 0, CstJ)
      [] fname = "k.py" -> File(TRUE, FALSE, 0, CstK)
      [] fname = "m.py" -> File(TRUE, FALSE, 0, CstM)
      [] fname = "n.py" -> File(TRUE, FALSE, 0, CstN)
      [] fname = "p.py" -> File(TRUE, FALSE, 0, CstP)
      [] fname = "q.py" -> File(TRUE, FALSE, 0, CstQ)
      [] fname = "t.py" -> File(TRUE, FALSE, 0, CstT)

\* The files of the runs over several files
CorpusFiles == {"a.py", "e.py", "f.py", "g.py", "h.py"}

BasePaths == {"/r", "/w/p"}

-----------------------------------------------------------------------------
(* walkCst, parseSource, parseFile, work, main, writeIndex *)

\* os.path.join(basepath, relpath)
PathJoin(a, b) ==
    IF StartsWith(b, "/") THEN b
    ELSE IF a = "" \/ EndsWith(a, "/") THEN a \o b
    ELSE a \o "/" \o b

\* A push of the children in source order, the last one on top
RECURSIVE PushKidsForward(_, _, _, _)
PushKidsForward(stk, path, n, indent) ==
    IF n = 0 THEN stk
    ELSE Append(PushKidsForward(stk, path, n - 1, indent),
                [path |-> Append(path, n), indent |-> indent])

\* walkCst: the children of cst pushed in reverse, so that the first is on top
RECURSIVE PushKids(_, _, _, _)
PushKids(stk, path, n, indent) ==
    IF n = 0 THEN stk
    ELSE PushKids(Append(stk, [path |-> Append(path, n), indent |-> indent]),
                  path, n - 1, indent)

\* walkCst: the context after one node is processed
Visit(c, cst, path, sas) ==
    IF ISNONTERMINAL(cst.kind)
    THEN processNonTerminal(c, cst, path)
    ELSE processTerminal(c, cst, path, sas)

\* "".join(indexbuff)
RECURSIVE Join(_)
Join(buff) == IF buff = <<>> THEN "" ELSE Head(buff) \o Join(Tail(buff))

\* "%010d" % n
RECURSIVE PadLeft(_, _)
PadLeft(s, width) == IF Len(s) >= width THEN s ELSE PadLeft("0" \o s, width)

\* writeIndex: the header overhead beyond the base path
HdrOverhead == 25

\* writeIndex: the width of the size field
SizeWidth == 10

\* A total size that leaves out the header
TotalSizeOfIndex(bp, index) == Len(index)

\* writeIndex: hdr_len + index_len
TotalSize(bp, index) ==
    LET index_len == Len(index)
        hdr_len == Len(bp) + HdrOverhead
    IN hdr_len + index_len

\* The file names joined, with no newline after the last
FNamesJoined(fb) == JoinNl(fb)

\* writeIndex: fnames
FNames(fb) == JoinNl(fb) \o "\n"

\* writeIndex: the strings written, in order
writeIndex(bp, ib, fb) ==
    LET index == Join(ib)
        fnames == FNames(fb)
    IN << "cscope 15 " \o bp \o " -c " \o PadLeft(ToDec(TotalSize(bp, index)), SizeWidth),
          index,
          "\n1\n.\n0\n",
          ToDec(Len(fb)) \o "\n",
          ToDec(Len(fnames)) \o "\n",
          fnames >>

\* An entry for relpath that bears no file mark
FileMarkEntryUnmarked(rp) == "\n" \o rp \o "\n\n"

\* The file mark entry parseFile adds for relpath, and main()'s sentinel
FileMarkEntry(rp) == "\n" \o MarkFormat(FILE) \o rp \o "\n\n"

Sentinel == "\n" \o MarkFormat(FILE)

NoContext == [Context EXCEPT !.line = None]

\* A message work() or parseFile prints: the exception, e.filename, e.lineno
Report(exc, filename, line) == [exc |-> exc, filename |-> filename, lineno |-> line]

\* An extend that is reached even when the walk raises
parseSourceExtendAlways(ib, c) == ib \o c.buff

\* parseSource: walkCst(ctx, ...) and then indexbuff.extend(ctx.buff), which
\* is not reached when the walk raises
parseSourceExtend(ib, c) == IF c.exc = "" THEN ib \o c.buff ELSE ib

\* work(): the next file name; parseFile up to the start of the walk
ParseFile ==
    /\ pc = "work" /\ gen # <<>>
    /\ LET fname == Head(gen)
           f == FileOf(fname)
           fullpath == PathJoin(basepath, fname)
       IN /\ gen' = Tail(gen)
          /\ relpath' = fname
          /\ IF ~f.open
             THEN \* IOError: a message, and the file is ignored
                  /\ stdout' = Append(stdout, Report("IOError", fullpath, 0))
                  /\ UNCHANGED <<indexbuff, indexbuff_len, fnamesbuff, pc,
                                 stack, lineno, ctx>>
                  /\ op' = [name |-> "parseFile", exc |-> "IOError"]
             ELSE /\ fnamesbuff' = Append(fnamesbuff, fname)
                  /\ indexbuff' = Append(indexbuff, FileMarkEntry(fname))
                  /\ IF f.empty
                     THEN /\ indexbuff_len' = indexbuff_len + 1
                          /\ UNCHANGED <<stdout, pc, stack, lineno, ctx>>
                          /\ op' = [name |-> "parseFile", exc |-> ""]
                     ELSE IF f.syntax # 0
                     THEN \* parser.suite raises; work() reports it and goes on
                          /\ stdout' = Append(stdout,
                                 Report("SyntaxError", fullpath, f.syntax))
                          /\ UNCHANGED <<indexbuff_len, pc, stack, lineno, ctx>>
                          /\ op' = [name |-> "parseFile", exc |-> "SyntaxError"]
                     ELSE /\ ctx' = Context
                          /\ stack' = <<[path |-> <<>>, indent |-> 0]>>
                          /\ lineno' = 1
                          /\ pc' = "walk"
                          /\ UNCHANGED <<stdout, indexbuff_len>>
                          /\ op' = [name |-> "parseFile", exc |-> ""]
    /\ UNCHANGED <<strings_as_symbols, basepath, args, fout>>

\* walkCst: one turn of the loop.  An AssertionError goes up through
\* parseSource and parseFile to work(), which reports it and goes on with the
\* next file; indexbuff_len, the counter work() holds, is assigned only when
\* parseFile returns.
WalkStep ==
    /\ pc = "walk" /\ stack # <<>>
    /\ LET top == Last(stack)
           tree == FileOf(relpath).cst
           cst == NodeAt(tree, top.path)
           c1 == Visit(ctx, cst, top.path, strings_as_symbols)
           rest == SubSeq(stack, 1, Len(stack) - 1)
           nkids == Len(cst.kids)
       IN IF c1.exc = ""
          THEN /\ ctx' = c1
               /\ lineno' = IF ISNONTERMINAL(cst.kind) THEN lineno ELSE cst.line
               /\ stack' = PushKids(rest, top.path, nkids,
                                    IF nkids > 0 THEN top.indent + 2 ELSE top.indent)
               /\ op' = [name |-> "visit", path |-> top.path, exc |-> ""]
               /\ UNCHANGED <<stdout, pc, indexbuff>>
          ELSE /\ stdout' = Append(stdout,
                      Report(c1.exc, PathJoin(basepath, relpath), lineno))
               /\ indexbuff' = parseSourceExtend(indexbuff, c1)
               /\ ctx' = NoContext
               /\ stack' = <<>>
               /\ pc' = "work"
               /\ op' = [name |-> "visit", path |-> top.path, exc |-> c1.exc,
                         dropped |-> c1.buff]
               /\ UNCHANGED lineno
    /\ UNCHANGED <<strings_as_symbols, basepath, args, gen, indexbuff_len,
                   fnamesbuff, fout, relpath>>

\* parseSource: the walk is over
ParseSourceReturn ==
    /\ pc = "walk" /\ stack = <<>>
    /\ indexbuff' = parseSourceExtend(indexbuff, ctx)
    /\ indexbuff_len' = indexbuff_len + 1 + Len(ctx.buff)
    /\ ctx' = NoContext
    /\ pc' = "work"
    /\ op' = [name |-> "parseSource", exc |-> ""]
    /\ UNCHANGED <<strings_as_symbols, basepath, args, gen, fnamesbuff, fout, stdout,
                   relpath, stack, lineno>>

\* main(): work() has returned; the sentinel
MainSentinel ==
    /\ pc = "work" /\ gen = <<>>
    /\ indexbuff' = Append(indexbuff, Sentinel)
    /\ pc' = "write"
    /\ op' = [name |-> "sentinel", exc |-> ""]
    /\ UNCHANGED <<strings_as_symbols, basepath, args, gen, indexbuff_len, fnamesbuff,
                   fout, stdout, relpath, stack, lineno, ctx>>

\* main(): writeIndex and fout.close()
WriteIndex ==
    /\ pc = "write"
    /\ fout' = writeIndex(basepath, indexbuff, fnamesbuff)
    /\ pc' = "done"
    /\ op' = [name |-> "writeIndex", exc |-> ""]
    /\ UNCHANGED <<strings_as_symbols, basepath, args, gen, indexbuff, indexbuff_len,
                   fnamesbuff, stdout, relpath, stack, lineno, ctx>>

\* The lists of at most n names of S
RECURSIVE SeqsUpTo(_, _)
SeqsUpTo(S, n) ==
    IF n = 0 THEN {<<>>}
    ELSE LET shorter == SeqsUpTo(S, n - 1)
         IN shorter \cup {Append(s, x) : s \in shorter, x \in S}

InitWith(lists) ==
    /\ strings_as_symbols \in BOOLEAN
    /\ basepath \in BasePaths
    /\ args \in lists
    /\ gen = args
    /\ indexbuff = <<>>
    /\ indexbuff_len = 0
    /\ fnamesbuff = <<>>
    /\ fout = <<>>
    /\ stdout = <<>>
    /\ pc = "work"
    /\ relpath = ""
    /\ stack = <<>>
    /\ lineno = 1
    /\ ctx = NoContext
    /\ op = [name |-> "init", exc |-> ""]

\* A run of main() over at most MaxFiles files
Init == InitWith(SeqsUpTo(CorpusFiles, MaxFiles))

Next == ParseFile \/ WalkStep \/ ParseSourceReturn \/ MainSentinel \/ WriteIndex

Spec == Init /\ [][Next]_vars

\* A run of main() over one file
InitFile == InitWith({<<f>> : f \in FileNames})

SpecFile == InitFile /\ [][Next]_vars

\* A run of main() over one file in which the loop of walkCst goes on as
\* long as its stack holds a node
SpecWalk == InitFile /\ [][Next]_vars /\ WF_vars(WalkStep)

-----------------------------------------------------------------------------
(* SpecLine: runs appended to one Line *)

\* The runs appended: Symbols without a mark, with a mark, FuncEnd Symbols
\* with and without text, NonSymbols
Runs == {Symbol("f", ""), Symbol("g", FUNC_DEF), Symbol("", FUNC_END),
         Symbol("e", FUNC_END), NonSymbol("x"), NonSymbol(" ")}

\* The variables of main() and of the walk, while they are not in use
Idle ==
    /\ basepath = "" /\ args = <<>> /\ gen = <<>> /\ indexbuff = <<>>
    /\ indexbuff_len = 0 /\ fnamesbuff = <<>> /\ fout = <<>> /\ stdout = <<>>
    /\ relpath = "" /\ stack = <<>>

IdleVars == <<basepath, args, gen, indexbuff, indexbuff_len, fnamesbuff, fout,
              stdout, relpath, stack, pc, strings_as_symbols>>

InitLine ==
    /\ Idle /\ pc = "line" /\ strings_as_symbols = FALSE /\ lineno = 1
    /\ ctx = Context
    /\ op = [name |-> "init", exc |-> "", n |-> 0]

\* ctx.line += run
LineAppend(run) ==
    /\ pc = "line" /\ ctx.exc = "" /\ op.n < MaxRuns
    /\ ctx' = AddRun(ctx, run)
    /\ op' = [name |-> "add", run |-> run, exc |-> ctx'.exc, n |-> op.n + 1]
    /\ UNCHANGED <<IdleVars, lineno>>

NextLine == \E run \in Runs : LineAppend(run)

SpecLine == InitLine /\ [][NextLine]_vars

-----------------------------------------------------------------------------
(* SpecMarks: setMark and getMark called on the terminals of one tree; the  *)
(* caller catches the AssertionError of a call and goes on                  *)

MarkNodes == <<T("NAME", "a", 1), T("DOT", ".", 1), T("NAME", "b", 1), T("NUMBER", "1", 1)>>

MarksSet == {FUNC_CALL, ASSIGN}

InitMarks ==
    /\ Idle /\ pc = "marks" /\ strings_as_symbols = FALSE /\ lineno = 1
    /\ ctx = Context
    /\ op = [name |-> "init", idx |-> <<>>, mark |-> "", exc |-> "", ret |-> "", n |-> 0]

SetMark(i, mark) ==
    /\ pc = "marks" /\ op.n < MaxCalls
    /\ LET c1 == setMark(ctx, <<i>>, MarkNodes[i].kind, mark)
       IN /\ ctx' = [c1 EXCEPT !.exc = ""]
          /\ op' = [name |-> "setMark", idx |-> <<i>>, mark |-> mark, exc |-> c1.exc,
                    ret |-> "", n |-> op.n + 1]
    /\ UNCHANGED <<IdleVars, lineno>>

GetMark(i) ==
    /\ pc = "marks" /\ op.n < MaxCalls
    /\ LET c1 == getMark(ctx, <<i>>)
       IN /\ ctx' = [c1 EXCEPT !.exc = ""]
          /\ op' = [name |-> "getMark", idx |-> <<i>>, mark |-> "", exc |-> c1.exc,
                    ret |-> IF c1.exc = "" THEN getMarkValue(ctx, <<i>>) ELSE "",
                    n |-> op.n + 1]
    /\ UNCHANGED <<IdleVars, lineno>>

NextMarks ==
    \/ \E i \in DOMAIN MarkNodes, mark \in MarksSet : SetMark(i, mark)
    \/ \E i \in DOMAIN MarkNodes : GetMark(i)

SpecMarks == InitMarks /\ [][NextMarks]_vars

-----------------------------------------------------------------------------
(* SpecTerm: processTerminal on a stream of terminals, in the order of a    *)
(* walk; the n-th node of the stream has the identity <<n>>.  The numbers   *)
(* of the lines never decrease, and ENDMARKER ends the stream.              *)

\* kind and text of the terminals of a stream
TermTokens == {<<"NAME", "f">>, <<"NAME", "if">>, <<"STRING", "'s'">>, <<"LPAR", "(">>,
               <<"NEWLINE", "">>, <<"ENDMARKER", "">>}

InitTerm ==
    /\ Idle /\ pc = "term" /\ strings_as_symbols \in BOOLEAN /\ lineno = 1
    /\ ctx = Context
    /\ op = [name |-> "init", exc |-> "", n |-> 0]

TermStep(cst, c1) ==
    /\ ctx' = c1
    /\ lineno' = IF c1.exc = "" THEN cst.line ELSE lineno
    /\ op' = [name |-> "terminal", cst |-> cst, exc |-> c1.exc, n |-> op.n + 1]
    /\ UNCHANGED IdleVars

TermReady == pc = "term" /\ ctx.exc = "" /\ ctx.line # None /\ op.n < MaxToks

\* A terminal on the line of the one before it, or on the next line
Terminal(tok, line) ==
    /\ TermReady
    /\ LET cst == T(tok[1], tok[2], line)
       IN TermStep(cst, processTerminal(ctx, cst, <<op.n + 1>>, strings_as_symbols))

\* A text literal that ends on the line after the one it begins on
MultiLineString ==
    /\ TermReady
    /\ LET cst == T("STRING", "'''a\nb'''", lineno + 1)
       IN TermStep(cst, processTerminal(ctx, cst, <<op.n + 1>>, strings_as_symbols))

\* INDENT and DEDENT, which carry the line of the statement that follows
Indent ==
    /\ TermReady
    /\ LET cst == T("INDENT", "", lineno + 1)
       IN TermStep(cst, processTerminal(ctx, cst, <<op.n + 1>>, strings_as_symbols))

Dedent ==
    /\ TermReady /\ ctx.indent_lvl > 0
    /\ LET cst == T("DEDENT", "", lineno + 1)
       IN TermStep(cst, processTerminal(ctx, cst, <<op.n + 1>>, strings_as_symbols))

\* The head of a function definition: the funcdef node, then its terminals
\* 'def' and the name
FuncDefHead(line) ==
    /\ TermReady
    /\ LET path == <<op.n + 1>>
           kw == T("NAME", "def", line)
           name == T("NAME", "g", line)
           c1 == processNonTerminal(ctx, N("funcdef", <<kw, name>>), path)
           c2 == processTerminal(c1, kw, Append(path, 1), strings_as_symbols)
           c3 == processTerminal(c2, name, Append(path, 2), strings_as_symbols)
       IN TermStep(name, c3)

NextTerm ==
    \/ \E tok \in TermTokens, line \in {lineno, lineno + 1} : Terminal(tok, line)
    \/ MultiLineString
    \/ Indent
    \/ Dedent
    \/ \E line \in {lineno, lineno + 1} : FuncDefHead(line)

SpecTerm == InitTerm /\ [][NextTerm]_vars

-----------------------------------------------------------------------------
(* Properties *)

\* The line holds at least one Symbol run (read from its runs, not its flag)
HasSymbolRun(line) == \E i \in DOMAIN line.contents : isSymbol(line.contents[i])

IsFuncEnd(run) == isSymbol(run) /\ hasMark(run, markFuncEnd)

IsPrefix(s, t) == Len(s) <= Len(t) /\ SubSeq(t, 1, Len(s)) = s

\* The terminal of this step makes processTerminal commit the line: it is no
\* DEDENT, and its line differs and it is no STRING, or it is the ENDMARKER
C1_Commits ==
    /\ op'.name = "terminal" /\ op'.cst.kind # "DEDENT"
    /\ \/ op'.cst.line # ctx.line.lineno /\ op'.cst.kind # "STRING"
       \/ ISEOF(op'.cst.kind)

C1_Step ==
    op'.exc = "" =>
        IF C1_Commits /\ HasSymbolRun(ctx.line)
        THEN /\ Len(ctx'.buff) = Len(ctx.buff) + 1
             /\ IsPrefix(ctx.buff, ctx'.buff)
             /\ StartsWith(Last(ctx'.buff), ToDec(ctx.line.lineno) \o " ")
        ELSE ctx'.buff = ctx.buff

\* C1: at every commit of the line being accumulated (a change of line number
\* or the end of input) the line is appended to the buffer of the file if and
\* only if it holds at least one Symbol run, and nothing else adds to the
\* buffer: no record of a line without a Symbol is ever in it.
C1_CommitIffSymbol == [][C1_Step]_vars

\* Line 1 was committed without a Symbol and line 2 with one
C1_Witness ==
    /\ pc = "term" /\ ctx.exc = "" /\ op.name = "terminal"
    /\ Len(ctx.buff) = 1 /\ StartsWith(ctx.buff[1], "2 ") /\ ctx.line.lineno = 3

C2_Separated ==
    \A i \in 2..Len(ctx.line.contents) :
        IsFuncEnd(ctx.line.contents[i]) => isNonSymbol(ctx.line.contents[i - 1])

C2_Step ==
    (op'.name = "add" /\ op'.exc = "" /\ IsFuncEnd(op'.run)) =>
        IF ctx.line.contents # <<>> /\ isSymbol(Last(ctx.line.contents))
        THEN ctx'.line.contents = ctx.line.contents \o <<NonSymbol(" "), op'.run>>
        ELSE ctx'.line.contents = Append(ctx.line.contents, op'.run)

\* C2: in a Line, a FuncEnd Symbol is never immediately preceded by another
\* Symbol: appending a FuncEnd Symbol to a line whose last run is a Symbol
\* (a FuncEnd too) inserts exactly one NonSymbol of a single space between
\* them, and appending it after a NonSymbol or to an empty line inserts none.
C2_FuncEndSeparated == []C2_Separated /\ [][C2_Step]_vars

\* A FuncEnd was appended after a FuncEnd, with the space between them
C2_Witness ==
    /\ pc = "line" /\ op.name = "add" /\ IsFuncEnd(op.run)
    /\ Len(ctx.line.contents) >= 3
    /\ IsFuncEnd(ctx.line.contents[Len(ctx.line.contents) - 2])
    /\ ctx.line.contents[Len(ctx.line.contents) - 1] = NonSymbol(" ")
    /\ IsFuncEnd(Last(ctx.line.contents))

\* The number of places of s where p occurs
CountSub(s, p) ==
    Cardinality({i \in 1..(Len(s) - Len(p) + 1) : SubSeq(s, i, i + Len(p) - 1) = p})

Contains(s, p) == CountSub(s, p) > 0

\* The number a string of decimal digits denotes
DigitVal(ch) == CHOOSE d \in 0..9 : SubSeq("0123456789", d + 1, d + 1) = ch

RECURSIVE ParseDec(_)
ParseDec(s) ==
    IF s = "" THEN 0
    ELSE ParseDec(SubSeq(s, 1, Len(s) - 1)) * 10 + DigitVal(SubSeq(s, Len(s), Len(s)))

\* The sum of the lengths of the strings of a list
RECURSIVE SumLen(_)
SumLen(strs) == IF strs = <<>> THEN 0 ELSE Len(Head(strs)) + SumLen(Tail(strs))

\* The names of a list that open() accepts, in order
RECURSIVE Opened(_)
Opened(names) ==
    IF names = <<>> THEN <<>>
    ELSE (IF FileOf(Head(names)).open THEN <<Head(names)>> ELSE <<>>)
         \o Opened(Tail(names))

\* The file marks of a body: a newline, a tab and the '@'
NumFileMarks(body) == CountSub(body, "\n\t@")

\* C3, as the claim states it: at the end of a run the number of file mark
\* entries of the body is the number of the files processed with success
\* (those for which nothing was reported) plus one for the sentinel, a file
\* whose processing failed adding none.
C3_Original ==
    pc = "done" => NumFileMarks(fout[2]) = (Len(args) - Len(stdout)) + 1

\* C3: at the end of a run the number of file mark entries of the body is the
\* number of the files that could be opened, those whose parsing or
\* classification failed included, plus one for the sentinel that ends the
\* body; only a file that cannot be opened adds no file mark entry.
C3_FileMarks ==
    pc = "done" =>
        /\ NumFileMarks(fout[2]) = Len(Opened(args)) + 1
        /\ EndsWith(fout[2], "\n\t@")

\* A run with a file whose classification failed and one that did not open
C3_Witness ==
    /\ pc = "done"
    /\ \E i \in DOMAIN stdout : stdout[i].exc = "AssertionError"
    /\ \E i \in DOMAIN stdout : stdout[i].exc = "IOError"

C4_Step ==
    /\ IsPrefix(indexbuff, indexbuff')
    /\ (op'.name = "visit" /\ op'.exc = "AssertionError") =>
           /\ indexbuff' = indexbuff
           /\ fnamesbuff' = fnamesbuff
           /\ gen' = gen
           /\ pc' = "work"
           /\ fout' = fout

\* C4: no step changes or removes an entry the corpus buffer already holds;
\* when the walk of a file raises an AssertionError the corpus buffer stays
\* as it is (none of the line records the file had built is added), and
\* work() goes on with the files that remain: at the end every file was
\* taken and every file that opened is recorded.
C4_FailureIsolated ==
    /\ [][C4_Step]_vars
    /\ [](pc = "done" => gen = <<>> /\ fnamesbuff = Opened(args))

\* The walk of a file has just failed with line records built, after the
\* records of an earlier file were added and with a file still to come
C4_Witness ==
    /\ op.name = "visit" /\ op.exc = "AssertionError" /\ op.dropped # <<>>
    /\ Len(indexbuff) >= 4 /\ gen # <<>> /\ pc = "work"

\* C5: the size field of the header, ten digits at its end, is the length of
\* the base path plus 25 plus the length of the body, the body being every
\* entry of the corpus buffer with the sentinel last; the counter work() keeps
\* has no part in it.
C5_TotalSize ==
    pc = "done" =>
        LET hdr == fout[1]
            field == SubSeq(hdr, Len(hdr) - 9, Len(hdr))
        IN /\ hdr = "cscope 15 " \o basepath \o " -c " \o field
           /\ ParseDec(field) = Len(basepath) + 25 + SumLen(indexbuff)
           /\ Len(fout[2]) = SumLen(indexbuff)
           /\ Last(indexbuff) = "\n\t@"

\* A run at whose end the counter of work() is not the number of entries
C5_Witness ==
    pc = "done" /\ Len(indexbuff) > 2 /\ indexbuff_len + 1 # Len(indexbuff)

\* The names of a list, each followed by a newline
RECURSIVE NamesText(_)
NamesText(names) ==
    IF names = <<>> THEN "" ELSE Head(names) \o "\n" \o NamesText(Tail(names))

\* C6: in the trailer the count field is the number of the recorded names,
\* the length field is the length of the names joined by newlines plus one
\* for the newline at the end, and the names listed are the recorded names,
\* those of the files that opened, in the order of processing.
C6_Trailer ==
    pc = "done" =>
        LET n == Len(fnamesbuff)
            count == fout[4]
            length == fout[5]
        IN /\ fnamesbuff = Opened(args)
           /\ EndsWith(count, "\n") /\ EndsWith(length, "\n")
           /\ ParseDec(SubSeq(count, 1, Len(count) - 1)) = n
           /\ ParseDec(SubSeq(length, 1, Len(length) - 1)) = Len(fout[6])
           /\ Len(fout[6]) = SumLen(fnamesbuff) + (IF n = 0 THEN 0 ELSE n - 1) + 1
           /\ fout[6] = IF n = 0 THEN "\n" ELSE NamesText(fnamesbuff)

\* A run that recorded two different names and passed over a third file
C6_Witness ==
    /\ pc = "done" /\ Len(fnamesbuff) = 2 /\ fnamesbuff[1] # fnamesbuff[2]
    /\ Len(args) > Len(fnamesbuff)

C7_Step ==
    /\ (op'.name = "setMark" /\ op'.idx \in DOMAIN ctx.marks) =>
           op'.exc = "AssertionError" /\ ctx'.marks = ctx.marks
    /\ (op'.name = "setMark" /\ op'.exc = "") =>
           /\ op'.idx \notin DOMAIN ctx.marks
           /\ ctx'.marks = MapPut(ctx.marks, op'.idx, op'.mark)
    /\ (op'.name = "getMark" /\ op'.idx \in DOMAIN ctx.marks) =>
           /\ op'.exc = "" /\ op'.ret = ctx.marks[op'.idx]
           /\ DOMAIN ctx'.marks = DOMAIN ctx.marks \ {op'.idx}
           /\ \A k \in DOMAIN ctx'.marks : ctx'.marks[k] = ctx.marks[k]
    /\ (op'.name = "getMark" /\ op'.idx \notin DOMAIN ctx.marks) =>
           op'.exc = "AssertionError" /\ ctx'.marks = ctx.marks

\* C7: the map of marks is write-once and read-once for each node: setMark on
\* a node that holds a mark not yet taken fails and leaves the mark as it is;
\* getMark returns the mark registered and removes it, so that getMark on a
\* node that holds no mark (a second one with no setMark between) fails.
C7_WriteOnceReadOnce == [][C7_Step]_vars

\* setMark has just failed on a node that holds another mark, still stored
C7_Witness ==
    /\ pc = "marks" /\ op.name = "setMark" /\ op.exc = "AssertionError"
    /\ op.idx \in DOMAIN ctx.marks /\ ctx.marks[op.idx] # op.mark

\* A proper ancestor of the node at path is a function definition
NestedInFuncDef(tree, path) ==
    \E k \in 0..(Len(path) - 1) : NodeAt(tree, SubSeq(path, 1, k)).kind = "funcdef"

C8_Step ==
    (/\ op'.name = "visit" /\ op'.exc = "" /\ pc = "walk"
     /\ NodeAt(FileOf(relpath).cst, op'.path).kind = "funcdef") =>
        LET name == Append(op'.path, 2)
        IN (name \in DOMAIN ctx'.marks /\ ctx'.marks[name] = FUNC_DEF)
               <=> ~NestedInFuncDef(FileOf(relpath).cst, op'.path)

\* C8, as the claim states it: when the walk visits a function definition its
\* name is marked FuncDef if and only if no function definition encloses it,
\* whatever definitions come before it in the file.
C8_Original == [][C8_Step]_vars

NumFuncEnds(line) ==
    Cardinality({i \in DOMAIN line.contents : IsFuncEnd(line.contents[i])})

C9_Step ==
    (op'.name = "terminal" /\ op'.exc = "") =>
        IF op'.cst.kind = "DEDENT"
        THEN /\ ctx'.buff = ctx.buff
             /\ ctx'.line.lineno = ctx.line.lineno
             /\ ctx'.indent_lvl = ctx.indent_lvl - 1
             /\ IF ctx.indent_lvl - 1 = ctx.func_def_lvl
                THEN /\ ctx'.func_def_lvl = -1
                     /\ ctx'.line.contents # <<>>
                     /\ Last(ctx'.line.contents) = Symbol("", FUNC_END)
                     /\ SubSeq(ctx'.line.contents, 1, Len(ctx'.line.contents) - 1)
                            \in {ctx.line.contents,
                                 Append(ctx.line.contents, NonSymbol(" "))}
                ELSE ctx'.func_def_lvl = ctx.func_def_lvl /\ ctx'.line = ctx.line
        ELSE NumFuncEnds(ctx'.line) =
                 IF ctx'.line.lineno = ctx.line.lineno THEN NumFuncEnds(ctx.line) ELSE 0

\* C9: a DEDENT that brings the indentation level back to the level recorded
\* at the function definition sets the level of the function definition back
\* to -1 and appends a FuncEnd Symbol of empty text to the line being built,
\* which is neither committed nor renumbered; no other terminal adds a
\* FuncEnd, so that the FuncEnd is in the record of the line before the
\* dedent and never in that of the statement after it.
C9_DedentFuncEnd == [][C9_Step]_vars

\* A DEDENT carrying the number of a later line has just ended a function
C9_Witness ==
    /\ pc = "term" /\ op.name = "terminal" /\ op.cst.kind = "DEDENT"
    /\ ctx.func_def_lvl = -1 /\ ctx.line.contents # <<>>
    /\ IsFuncEnd(Last(ctx.line.contents))
    /\ op.cst.line > ctx.line.lineno

\* The buffer after the line is committed
Committed(c) ==
    IF HasSymbolRun(c.line) THEN Append(c.buff, LineFormat(c.line)) ELSE c.buff

C10_Step ==
    (/\ op'.name = "terminal" /\ op'.exc = "" /\ op'.cst.kind # "DEDENT"
     /\ op'.cst.line # ctx.line.lineno) =>
        IF op'.cst.kind = "STRING" /\ Contains(op'.cst.text, "\n")
        THEN ctx'.line.lineno = ctx.line.lineno /\ ctx'.buff = ctx.buff
        ELSE IF ISEOF(op'.cst.kind)
        THEN ctx'.line = None /\ ctx'.buff = Committed(ctx)
        ELSE ctx'.line.lineno = op'.cst.line /\ ctx'.buff = Committed(ctx)

C11_Pair ==
    op'.name = "add" /\ ~IsFuncEnd(op'.run) /\ ctx.line.contents # <<>>

\* The runs of a line after the merge of run into its last run
C11_Merged(contents, run) ==
    LET last == Last(contents)
    IN IF isSymbol(run)
       THEN ReplaceLast(contents, [last EXCEPT !.name = last.name \o run.name])
       ELSE ReplaceLast(contents, [last EXCEPT !.text = last.text \o " " \o run.text])

C11_OriginalStep ==
    C11_Pair =>
        LET last == Last(ctx.line.contents)
            run == op'.run
        IN IF \/ isSymbol(last) /\ isSymbol(run) /\ last.mark = run.mark
              \/ isNonSymbol(last) /\ isNonSymbol(run)
           THEN op'.exc = "" /\ ctx'.line.contents = C11_Merged(ctx.line.contents, run)
           ELSE op'.exc = "" /\ ctx'.line.contents = Append(ctx.line.contents, run)

\* C11, as the claim states it: for a new run that is no FuncEnd Symbol, two
\* Symbols of equal mark merge by concatenation, two NonSymbols merge joined
\* by one space, and in every other case, a Symbol whose mark differs from
\* that of the last Symbol included, the run is appended as a separate run.
C11_Original == [][C11_OriginalStep]_vars

C11_Step ==
    C11_Pair =>
        LET last == Last(ctx.line.contents)
            run == op'.run
        IN IF isSymbol(last) /\ isSymbol(run)
           THEN IF last.mark = run.mark
                THEN /\ op'.exc = ""
                     /\ ctx'.line.contents = C11_Merged(ctx.line.contents, run)
                ELSE op'.exc = "AssertionError" /\ ctx'.line = ctx.line
           ELSE IF isNonSymbol(last) /\ isNonSymbol(run)
           THEN op'.exc = "" /\ ctx'.line.contents = C11_Merged(ctx.line.contents, run)
           ELSE op'.exc = "" /\ ctx'.line.contents = Append(ctx.line.contents, run)

\* C11: for a new run that is no FuncEnd Symbol, two Symbols of equal mark
\* merge in place by concatenation and two NonSymbols merge in place joined by
\* one space; a Symbol after a NonSymbol and a NonSymbol after a Symbol are
\* appended as separate runs, the run before them unchanged; a Symbol after a
\* Symbol of another mark is an AssertionError that leaves the line as it is.
C11_MergeRule == [][C11_Step]_vars

\* After two NonSymbols were merged and a Symbol appended, a Symbol of
\* another mark has just been refused
C11_Witness ==
    /\ pc = "line" /\ op.name = "add" /\ op.exc = "AssertionError"
    /\ Len(ctx.line.contents) = 2
    /\ ctx.line.contents[1] = NonSymbol("x x")
    /\ isSymbol(ctx.line.contents[2]) /\ isSymbol(op.run)
    /\ ctx.line.contents[2].mark # op.run.mark

\* The tree being walked and the node the step visits
Tree == FileOf(relpath).cst

Front(path) == SubSeq(path, 1, Len(path) - 1)

\* The step is a visit of the walk that raised nothing
VisitStep == op'.name = "visit" /\ op'.exc = "" /\ pc = "walk"

\* The step is such a visit, of a terminal
TerminalStep == VisitStep /\ ~ISNONTERMINAL(NodeAt(Tree, op'.path).kind)

\* The node at path is a token of the dotted path of an import statement
InImportPath(tree, path) ==
    /\ Len(path) >= 2
    /\ NodeAt(tree, Front(path)).kind = "dotted_name"
    /\ NodeAt(tree, Front(Front(path))).kind \in {"dotted_as_name", "import_from"}

\* The texts of the first k children of a node, one after the other
RECURSIVE TextsUpTo(_, _)
TextsUpTo(node, k) ==
    IF k = 0 THEN "" ELSE TextsUpTo(node, k - 1) \o node.kids[k].text

\* None of the first k children of a node is a reserved word
NoReserved(node, k) == \A i \in 1..k : node.kids[i].text \notin kwlist

\* After the k-th token of a dotted path the last run of the line is the
\* Include Symbol of the first k texts, begun as a run of its own
C12_OneInclude ==
    LET k == Last(op'.path)
    IN /\ Last(ctx'.line.contents) =
              Symbol(TextsUpTo(NodeAt(Tree, Front(op'.path)), k), INCLUDE)
       /\ Len(ctx'.line.contents) =
              Len(ctx.line.contents) + (IF k = 1 THEN 1 ELSE 0)

\* A DOT that bears no mark ends the last run of the line, a NonSymbol
C12_BareDot ==
    (/\ TerminalStep /\ NodeAt(Tree, op'.path).kind = "DOT"
     /\ op'.path \notin DOMAIN ctx.marks) =>
        /\ isNonSymbol(Last(ctx'.line.contents))
        /\ EndsWith(Last(ctx'.line.contents).text, ".")

C12_OriginalStep ==
    /\ (TerminalStep /\ InImportPath(Tree, op'.path)) => C12_OneInclude
    /\ C12_BareDot

C12_Step ==
    /\ (TerminalStep /\ InImportPath(Tree, op'.path)) =>
           IF NoReserved(NodeAt(Tree, Front(op'.path)), Last(op'.path))
           THEN C12_OneInclude
           ELSE NodeAt(Tree, op'.path).text \in kwlist =>
                    isNonSymbol(Last(ctx'.line.contents))
    /\ C12_BareDot

NumKids(node, kind) ==
    Cardinality({i \in DOMAIN node.kids : node.kids[i].kind = kind})

\* The marks that are Include marks
IncludeMarks(marks) == {p \in DOMAIN marks : marks[p] = INCLUDE}

C13_Step ==
    VisitStep =>
        LET node == NodeAt(Tree, op'.path)
            parent == NodeAt(Tree, Front(op'.path))
        IN /\ node.kind = "import_name" =>
                  ctx'.import_name /\ ctx'.import_cnt = ctx.import_cnt
           /\ (node.kind = "dotted_as_names" /\ parent.kind = "import_name") =>
                  /\ ctx'.import_name
                  /\ ctx'.import_cnt = NumKids(node, "dotted_as_name")
                  /\ ctx'.marks = ctx.marks
           /\ (node.kind = "dotted_name" /\ parent.kind = "dotted_as_name") =>
                  /\ ctx.import_name /\ ctx.import_cnt >= 1
                  /\ IncludeMarks(ctx'.marks) =
                         IncludeMarks(ctx.marks)
                         \cup {Append(op'.path, i) : i \in DOMAIN node.kids}
                  /\ ctx'.import_cnt = ctx.import_cnt - 1
                  /\ ctx'.import_name = (ctx'.import_cnt > 0)
           /\ (node.kind = "NAME" /\ parent.kind = "dotted_as_name") =>
                  /\ op'.path \notin DOMAIN ctx.marks
                  /\ node.text \notin kwlist =>
                         Last(ctx'.line.contents) = Symbol(node.text, "")
           /\ (node.kind = "dotted_name"
               /\ parent.kind \notin {"dotted_as_name", "import_from"}) =>
                  /\ ~ctx.import_name /\ ctx.import_cnt = 0
                  /\ ctx'.marks = ctx.marks
           /\ node.kind = "NEWLINE" => ~ctx'.import_name /\ ctx'.import_cnt = 0

\* C13: in a plain import statement of N modules the visit of the list of
\* modules sets the import counter to N; the visit of each of the N dotted
\* paths marks all of its tokens Include and counts one down, the import mode
\* going off with the counter at 0 after the N-th; the name of an alias bears
\* no mark and is emitted as a Symbol without one; at the end of the
\* statement the mode is off and the counter 0, and a dotted name visited
\* outside an import (that of a decorator) registers no mark.
C13_ImportCounter == [][C13_Step]_vars

\* After an import of two modules, one with an alias, the walk has come to
\* the dotted name of a decorator with the import mode off
C13_Witness ==
    /\ pc = "walk" /\ relpath = "m.py" /\ op.name = "visit" /\ op.exc = ""
    /\ NodeAt(Tree, op.path).kind = "dotted_name"
    /\ NodeAt(Tree, Front(op.path)).kind = "decorator"
    /\ ~ctx.import_name /\ ctx.import_cnt = 0
    /\ IncludeMarks(ctx.marks) = {} /\ Len(ctx.buff) = 1

\* The entries of the list that is the i-th child of the node at path
EntriesOf(tree, path, i) ==
    LET lst == NodeAt(tree, Append(path, i))
    IN {path \o <<i, j>> : j \in {j \in DOMAIN lst.kids : lst.kids[j].kind = "test"}}

\* The entries of the lists of an assignment that come before the last '='
TargetEntries(tree, path) ==
    LET node == NodeAt(tree, path)
    IN UNION {EntriesOf(tree, path, i) :
                i \in {i \in 1..(Len(node.kids) - 1) : node.kids[i].kind = tse}}

\* The terminal at path is in a list of an assignment before its last '=',
\* or in the target of an augmented assignment
InTarget(tree, path) ==
    \E k \in 0..(Len(path) - 1) :
        LET stmt == NodeAt(tree, SubSeq(path, 1, k))
        IN /\ stmt.kind = "expr_stmt" /\ Len(stmt.kids) >= 3
           /\ path[k + 1] < Len(stmt.kids)

C14_Step ==
    /\ (VisitStep /\ NodeAt(Tree, op'.path).kind = "expr_stmt") =>
           LET node == NodeAt(Tree, op'.path)
               n == Len(node.kids)
           IN IF n >= 3 /\ node.kids[2].kind = "EQUAL"
              THEN /\ ctx'.tests = ctx.tests \cup TargetEntries(Tree, op'.path)
                   /\ ctx'.tests \cap EntriesOf(Tree, op'.path, n) = {}
              ELSE IF n >= 3 /\ node.kids[2].kind = "augassign"
              THEN ctx'.tests = ctx.tests \cup {op'.path \o <<1, 1>>}
              ELSE ctx'.tests = ctx.tests
    /\ (/\ TerminalStep /\ op'.path \in DOMAIN ctx.marks
        /\ ctx.marks[op'.path] = ASSIGN) => InTarget(Tree, op'.path)

\* C14: the visit of an assignment t1 = ... = tk = value puts every entry of
\* every list t1..tk, and no entry of the value, into the pending set; the
\* visit of an augmented assignment puts just its one target there; an
\* expression statement that assigns nothing puts nothing there.  A terminal
\* that bears an Assign mark when it is visited is in a target, never in the
\* value.
C14_TargetsRegistered == [][C14_Step]_vars

\* The visit of a, b = c = d has just registered a, b and c
C14_Witness ==
    /\ pc = "walk" /\ relpath = "n.py" /\ op.name = "visit" /\ op.exc = ""
    /\ NodeAt(Tree, op.path).kind = "expr_stmt"
    /\ Cardinality(ctx.tests) = 3
    /\ EntriesOf(Tree, op.path, 5) \cap ctx.tests = {}

C15_Step ==
    (op'.name = "visit" /\ pc = "walk") =>
        LET path == op'.path
            kind == NodeAt(Tree, path).kind
            pending == path \in ctx.tests
        IN /\ (kind = "test" /\ pending) =>
                  /\ ~ctx.power_do_assignment /\ op'.exc = ""
                  /\ ctx'.tests = ctx.tests \ {path}
                  /\ ctx'.power_do_assignment
           /\ ctx.power_do_assignment =>
                  /\ ~pending
                  /\ op'.exc = "" =>
                         (ctx'.power_do_assignment <=> kind # "power")
           /\ (~ctx.power_do_assignment /\ op'.exc = "" /\ ~(kind = "test" /\ pending))
                  => ~ctx'.power_do_assignment

\* C15: when the walk comes to a node of the pending set the flag is clear;
\* the visit takes the node out of the set and sets the flag.  Nothing else
\* sets the flag.  While the flag is set no node visited is pending, every
\* visit of a node that is no power leaves the flag set, and the visit of the
\* first power clears it: at most one resolution is outstanding.
C15_OneOutstanding == [][C15_Step]_vars

\* A pending node has just been visited while other nodes are still pending
C15_Witness ==
    /\ pc = "walk" /\ op.name = "visit" /\ op.exc = ""
    /\ NodeAt(Tree, op.path).kind = "test"
    /\ ctx.power_do_assignment /\ ctx.tests # {}

\* The Symbol runs of a line, in order
SymbolRuns(line) == SelectSeq(line.contents, isSymbol)

C16_Step ==
    (TerminalStep /\ NodeAt(Tree, op'.path).kind = "NAME") =>
        LET path == op'.path
            text == NodeAt(Tree, path).text
            last == Last(ctx'.line.contents)
        IN /\ ctx'.marks = MapDel(ctx.marks, path)
           /\ ctx'.line.contents # <<>>
           /\ IF text \in kwlist
              THEN /\ isNonSymbol(last) /\ EndsWith(last.text, text)
                   /\ SymbolRuns(ctx'.line) =
                          IF ctx'.line.lineno = ctx.line.lineno
                          THEN SymbolRuns(ctx.line) ELSE <<>>
              ELSE /\ isSymbol(last) /\ EndsWith(last.name, text)
                   /\ last.mark = IF path \in DOMAIN ctx.marks
                                  THEN ctx.marks[path] ELSE ""

\* C16: the visit of a NAME terminal leaves no mark for it in the map of
\* marks.  If its text is a reserved word the text goes to a NonSymbol run
\* and the Symbol runs of the line stay as they were, the mark registered for
\* it, if any, being dropped; if not, the text goes to a Symbol run that
\* bears the mark registered for it, or no mark when none was registered.
C16_ReservedNeverSymbol == [][C16_Step]_vars

\* The reserved word of 'import True.x' has been visited: the Include mark it
\* had is gone and the line holds no Symbol run yet
C16_Witness ==
    /\ pc = "walk" /\ relpath = "k.py" /\ op.name = "visit" /\ op.exc = ""
    /\ NodeAt(Tree, op.path).text = "True" /\ InImportPath(Tree, op.path)
    /\ op.path \notin DOMAIN ctx.marks /\ DOMAIN ctx.marks # {}
    /\ SymbolRuns(ctx.line) = <<>>

\* The places of a path at which a later sibling exists: the ancestors of
\* the node, itself included, that are not the last child
LaterSibling(tree, path) ==
    {k \in 1..Len(path) : Len(NodeAt(tree, SubSeq(path, 1, k - 1)).kids) > path[k]}

Max(S) == CHOOSE x \in S : \A y \in S : y <= x

\* The node a recursive left-to-right depth-first traversal meets after the
\* node at path: its first child or, if it has none, the next sibling of the
\* nearest ancestor (itself included) that has one
HasNext(tree, path) ==
    NodeAt(tree, path).kids # <<>> \/ LaterSibling(tree, path) # {}

NextInPreOrder(tree, path) ==
    IF NodeAt(tree, path).kids # <<>> THEN Append(path, 1)
    ELSE LET k == Max(LaterSibling(tree, path))
         IN Append(SubSeq(path, 1, k - 1), path[k] + 1)

\* The path is that of a node of the tree
IsNode(tree, path) ==
    \A k \in 1..Len(path) :
        path[k] \in DOMAIN NodeAt(tree, SubSeq(path, 1, k - 1)).kids

C17_Step ==
    /\ (op'.name = "visit" /\ pc = "walk") =>
           /\ IsNode(Tree, op'.path)
           /\ IF op.name = "visit"
              THEN /\ HasNext(Tree, op.path)
                   /\ op'.path = NextInPreOrder(Tree, op.path)
              ELSE op'.path = <<>>
           /\ op'.exc = "" => (stack' = <<>> <=> ~HasNext(Tree, op'.path))
    /\ (op'.name = "parseSource" /\ pc = "walk") =>
           op.name = "visit" /\ ~HasNext(Tree, op.path)

\* C17: the first node the loop of walkCst visits is the root, and each later
\* visit is of the node that a recursive left-to-right depth-first pre-order
\* traversal meets next after the node visited before, so that a parent is
\* visited before its children, the children in source order, and no node
\* twice; the stack is empty, and the walk returns, exactly when the node
\* visited has no next one, every node having been visited; and the loop of
\* every walk comes to an empty stack.
C17_PreOrderWalk ==
    /\ [][C17_Step]_vars
    /\ (pc = "walk") ~> (stack = <<>>)

\* The walk of the nested definitions of c.py has come to the last node of
\* the tree, the ENDMARKER, a second child of the root
C17_Witness ==
    /\ pc = "walk" /\ relpath = "c.py" /\ stack = <<>>
    /\ op.name = "visit" /\ ~HasNext(Tree, op.path)
    /\ Len(op.path) = 1 /\ NodeAt(Tree, op.path).kind = "ENDMARKER"

\* trailer: '(' ... ')'
IsCallTrailer(node) ==
    /\ node.kind = "trailer" /\ node.kids[1].kind = "LPAR"
    /\ Last(node.kids).kind = "RPAR"

\* trailer: '.' NAME
IsDotTrailer(node) ==
    /\ node.kind = "trailer" /\ Len(node.kids) = 2
    /\ node.kids[1].kind = "DOT" /\ node.kids[2].kind = "NAME"

\* atom: NAME
IsNameAtom(node) ==
    node.kind = "atom" /\ Len(node.kids) = 1 /\ node.kids[1].kind = "NAME"

\* The nodes this step marks FuncCall
NewCalls ==
    {p \in DOMAIN ctx'.marks \ DOMAIN ctx.marks : ctx'.marks[p] = FUNC_CALL}

\* The one name the claim has marked: that before the last call trailer
FinalCallName(node, path) ==
    LET calls == {i \in 2..Len(node.kids) : IsCallTrailer(node.kids[i])}
        last == Max(calls)
    IN IF calls = {} THEN {}
       ELSE IF last = 2 /\ IsNameAtom(node.kids[1]) THEN {path \o <<1, 1>>}
       ELSE IF last > 2 /\ IsDotTrailer(node.kids[last - 1]) THEN {path \o <<last - 1, 2>>}
       ELSE {}

\* Every name of the chain that a call trailer follows at once
CalledNames(node, path) ==
    (IF Len(node.kids) >= 2 /\ IsNameAtom(node.kids[1]) /\ IsCallTrailer(node.kids[2])
     THEN {path \o <<1, 1>>} ELSE {})
    \cup {path \o <<i, 2>> : i \in {i \in 2..(Len(node.kids) - 1) :
                 IsDotTrailer(node.kids[i]) /\ IsCallTrailer(node.kids[i + 1])}}

C18_OriginalStep ==
    (VisitStep /\ NodeAt(Tree, op'.path).kind = "power") =>
        NewCalls = FinalCallName(NodeAt(Tree, op'.path), op'.path)

\* C18, as the claim states it: the visit of a power node marks FuncCall the
\* leading name of name(...), or the name just before the last call trailer
\* of the chain, and in a chain with several call trailers no other name.
C18_Original == [][C18_OriginalStep]_vars

C18_Step ==
    (VisitStep /\ NodeAt(Tree, op'.path).kind = "power") =>
        NewCalls = CalledNames(NodeAt(Tree, op'.path), op'.path)

\* C18: the visit of a power node marks FuncCall every name of the chain
\* that a call trailer follows at once: the leading name if the first trailer
\* is a call, and the name of each '.name' trailer whose next trailer is a
\* call, and no other node, so that a chain with several call trailers can
\* have several names marked.
C18_EveryCalledName == [][C18_Step]_vars

\* The power node of a.b().c() has been visited: b and c bear FuncCall marks
C18_Witness ==
    /\ pc = "walk" /\ relpath = "p.py" /\ op.name = "visit" /\ op.exc = ""
    /\ NodeAt(Tree, op.path).kind = "power"
    /\ Cardinality({p \in DOMAIN ctx.marks : ctx.marks[p] = FUNC_CALL}) = 2
    /\ NodeAt(Tree, op.path \o <<1, 1>>).text = "a"

C19_Step ==
    (op'.name = "visit" /\ op'.exc = "" /\ pc = "walk") =>
        /\ DOMAIN ctx.marks \ DOMAIN ctx'.marks \subseteq {op'.path}
        /\ ctx.tests \ ctx'.tests \subseteq {op'.path}
        /\ op'.path \notin DOMAIN ctx'.marks /\ op'.path \notin ctx'.tests

\* C19: when the loop of a walk ends with no error the context holds no mark,
\* no pending node and a clear flag; on the way a mark leaves the map, and a
\* node the pending set, only at the visit of the node it was registered for,
\* and no node visited is left with one.
C19_NoLeftover ==
    /\ [](pc = "walk" /\ stack = <<>> =>
              /\ DOMAIN ctx.marks = {} /\ ctx.tests = {}
              /\ ~ctx.power_do_assignment /\ ctx.exc = "")
    /\ [][C19_Step]_vars

\* The walk of the assignments of q.py is over: five records built from
\* marks and pending nodes, none of which is left
C19_Witness ==
    /\ pc = "walk" /\ stack = <<>> /\ relpath = "q.py" /\ op.name = "visit"
    /\ Len(ctx.buff) = 5 /\ Contains(ctx.buff[1], "\t=w\n")
    /\ DOMAIN ctx.marks = {} /\ ctx.tests = {} /\ ~ctx.power_do_assignment

\* trailer: '[' ... ']'
IsSubTrailer(node) ==
    /\ node.kind = "trailer" /\ Len(node.kids) >= 3
    /\ node.kids[1].kind = "LSQB" /\ Last(node.kids).kind = "RSQB"

\* atom: '(' list ')' or '[' list ']'
IsListAtom(node) ==
    /\ node.kind = "atom" /\ Len(node.kids) = 3
    /\ node.kids[1].kind \in {"LPAR", "LSQB"}
    /\ node.kids[2].kind \in {"testlist_comp", "listmaker"}
    /\ node.kids[3].kind \in {"RPAR", "RSQB"}

\* The terminal a target of this shape has marked Assign, if any
TargetName(node, path) ==
    LET n == Len(node.kids)
    IN IF n = 1 /\ IsNameAtom(node.kids[1]) THEN {path \o <<1, 1>>}
       ELSE IF n = 1 THEN {}
       ELSE IF n = 2 /\ IsNameAtom(node.kids[1]) /\ IsSubTrailer(node.kids[2])
       THEN {path \o <<1, 1>>}
       ELSE IF IsDotTrailer(node.kids[n]) THEN {path \o <<n, 2>>}
       ELSE IF n >= 3 /\ IsDotTrailer(node.kids[n - 1]) /\ IsSubTrailer(node.kids[n])
       THEN {path \o <<n - 1, 2>>}
       ELSE {}

\* The elements of a target that is a parenthesized or bracketed list
TargetElements(node, path) ==
    IF Len(node.kids) = 1 /\ IsListAtom(node.kids[1])
    THEN LET lst == node.kids[1].kids[2]
         IN {path \o <<1, 2, j>> : j \in {j \in DOMAIN lst.kids : lst.kids[j].kind = "test"}}
    ELSE {}

\* The nodes this step marks Assign
NewAssigns ==
    {p \in DOMAIN ctx'.marks \ DOMAIN ctx.marks : ctx'.marks[p] = ASSIGN}

UnpackKinds ==
    {"testlist", "test", "or_test", "and_test", "not_test", "comparison", "expr",
     "xor_expr", "and_expr", "shift_expr", "arith_expr", "term", "factor", "power",
     "atom", "testlist_comp", "listmaker"}

\* The terminal at path is a bare name that is an element, at any depth of
\* parentheses and brackets, of a list before the last '=' of an assignment
BareElement(tree, path) ==
    \E k \in 0..(Len(path) - 1) :
        LET stmt == NodeAt(tree, SubSeq(path, 1, k))
        IN /\ stmt.kind = "expr_stmt" /\ Len(stmt.kids) >= 3
           /\ stmt.kids[2].kind = "EQUAL" /\ path[k + 1] < Len(stmt.kids)
           /\ \A j \in (k + 1)..(Len(path) - 1) :
                  LET a == NodeAt(tree, SubSeq(path, 1, j))
                  IN /\ a.kind \in UnpackKinds
                     /\ a.kind \notin {"testlist", "testlist_comp", "listmaker", "atom"}
                            => Len(a.kids) = 1

C20_Step ==
    /\ (VisitStep /\ NodeAt(Tree, op'.path).kind = "power") =>
           LET node == NodeAt(Tree, op'.path)
           IN /\ ~ctx'.power_do_assignment
              /\ IF ctx.power_do_assignment
                 THEN /\ NewAssigns = TargetName(node, op'.path)
                      /\ ctx'.tests = ctx.tests \cup TargetElements(node, op'.path)
                 ELSE NewAssigns = {} /\ ctx'.tests = ctx.tests
    /\ (op'.name = "visit" /\ pc = "walk" /\ NodeAt(Tree, op'.path).kind = "power"
        /\ ctx.power_do_assignment) => op'.exc = ""
    /\ (VisitStep /\ NodeAt(Tree, op'.path).kind # "power") => NewAssigns = {}
    /\ (TerminalStep /\ NodeAt(Tree, op'.path).kind = "NAME"
        /\ BareElement(Tree, op'.path)) =>
           op'.path \in DOMAIN ctx.marks /\ ctx.marks[op'.path] = ASSIGN

\* C20: the visit of a power node with the flag set clears the flag, raises
\* nothing and marks Assign at most one terminal, chosen by the shape of the
\* node: a bare name, that name; name[subscript], the name; a chain ending in
\* .name, that name; a chain ending in .name[subscript], that name; a list in
\* parentheses or brackets, none, its elements going to the pending set; any
\* other shape, none.  No other visit marks an Assign.  So each bare name
\* that is an element, at any depth, of an unpacking target bears the Assign
\* mark when its terminal is visited.
C20_TargetShapes == [][C20_Step]_vars

\* The power node of the inner list of (u, [v, w]) = t has been visited: no
\* mark, v and w pending
C20_Witness ==
    /\ pc = "walk" /\ relpath = "q.py" /\ op.name = "visit" /\ op.exc = ""
    /\ NodeAt(Tree, op.path).kind = "power"
    /\ NodeAt(Tree, op.path \o <<1, 1>>).kind = "LSQB"
    /\ ~ctx.power_do_assignment
    /\ ctx.tests = {op.path \o <<1, 2, 1>>, op.path \o <<1, 2, 3>>}
    /\ DOMAIN ctx.marks = {}

\* No two runs of the line that are next to each other are of the same kind
Alternates(line) ==
    \A i \in 1..(Len(line.contents) - 1) :
        line.contents[i].cls # line.contents[i + 1].cls

C21_Step ==
    (op'.name = "add" /\ op'.exc = "") =>
        LET old == ctx.line.contents
            new == ctx'.line.contents
        IN /\ Alternates(ctx'.line)
           /\ (old # <<>> /\ isNonSymbol(Last(old)) /\ isNonSymbol(op'.run)) =>
                  Len(new) = Len(old)
           /\ (old # <<>> /\ isSymbol(Last(old)) /\ isSymbol(op'.run)) =>
                  \/ Len(new) = Len(old)
                  \/ /\ Len(new) = Len(old) + 2
                     /\ new[Len(old) + 1] = NonSymbol(" ")

\* C21: in a Line built by appends none of which raised, no two runs next to
\* each other are of the same kind: a NonSymbol appended after a NonSymbol is
\* merged into it, and a Symbol appended after a Symbol is merged into it or
\* comes after a NonSymbol of one space put between them.
C21_RunsAlternate ==
    /\ [](pc = "line" => Alternates(ctx.line))
    /\ [][C21_Step]_vars

\* A line of four runs: a Symbol, the space put before a function end, the
\* function end, and a NonSymbol
C21_Witness ==
    /\ pc = "line" /\ ctx.exc = "" /\ Len(ctx.line.contents) = 4
    /\ isSymbol(ctx.line.contents[1]) /\ ctx.line.contents[2] = NonSymbol(" ")
    /\ IsFuncEnd(ctx.line.contents[3]) /\ isNonSymbol(ctx.line.contents[4])

\* The number of places, in the records of a buffer, of a Symbol of the mark
RECURSIVE MarkedInBuff(_, _)
MarkedInBuff(buff, mark) ==
    IF buff = <<>> THEN 0
    ELSE CountSub(Head(buff), "\n\t" \o mark) + MarkedInBuff(Tail(buff), mark)

\* The Symbols of the mark emitted so far: in the records and in the line
Emitted(c, mark) ==
    MarkedInBuff(c.buff, mark)
    + (IF c.line = None THEN 0
       ELSE Cardinality({i \in DOMAIN c.line.contents :
                isSymbol(c.line.contents[i]) /\ hasMark(c.line.contents[i], mark)}))

\* The function definitions marked and not yet ended
OpenFuncDefs(c) == Emitted(c, FUNC_DEF) - Emitted(c, FUNC_END)

C22_OriginalStep ==
    (VisitStep /\ Emitted(ctx', FUNC_END) > Emitted(ctx, FUNC_END)) =>
        ctx.func_def_lvl # -1

\* C22, as the claim states it: in the walk of a file whose INDENT and DEDENT
\* tokens balance, each name marked FuncDef is followed by one FuncEnd before
\* the next name marked FuncDef and before the end of the file; no FuncEnd is
\* emitted while the level of the function definition is -1; that level is -1
\* when the walk ends and, while it is not, it is never above the level of
\* indentation.
C22_Original ==
    /\ [](pc = "walk" /\ ctx.exc = "" =>
              /\ OpenFuncDefs(ctx) \in {0, 1}
              /\ ctx.func_def_lvl <= ctx.indent_lvl
              /\ stack = <<>> => (OpenFuncDefs(ctx) = 0 /\ ctx.func_def_lvl = -1))
    /\ [][C22_OriginalStep]_vars

C23_Step ==
    (op'.name = "visit" /\ pc = "walk" /\ NodeAt(Tree, op'.path).kind = "power") =>
        LET node == NodeAt(Tree, op'.path)
        IN /\ op'.exc = ""
           /\ TargetName(node, op'.path) \cap CalledNames(node, op'.path) = {}
           /\ NewCalls = CalledNames(node, op'.path)
           /\ NewAssigns = IF ctx.power_do_assignment
                           THEN TargetName(node, op'.path) ELSE {}
           /\ DOMAIN ctx'.marks = DOMAIN ctx.marks \cup NewCalls \cup NewAssigns

\* C23: the visit of a power node raises nothing: the terminal the resolution
\* of a target marks Assign is never one that the recognition of calls marks
\* FuncCall, the visit registers the marks of both, and each on a terminal
\* that held no mark.  The walk of x = f() builds one record in which x is
\* marked Assign and f is marked FuncCall.
C23_AssignAndCall ==
    /\ [][C23_Step]_vars
    /\ [](pc = "walk" /\ relpath = "t.py" /\ stack = <<>> =>
              /\ Len(ctx.buff) = 2
              /\ ctx.buff[1] = "1 \n\t=x\n = \n\t^f\n ( )\n\n")

\* The power node of the target of a.b().c = g() has been visited with the
\* flag set: b bears a FuncCall mark and c an Assign mark
C23_Witness ==
    /\ pc = "walk" /\ relpath = "t.py" /\ op.name = "visit" /\ op.exc = ""
    /\ NodeAt(Tree, op.path).kind = "power"
    /\ DOMAIN ctx.marks = {op.path \o <<2, 2>>, op.path \o <<4, 2>>}
    /\ ctx.marks[op.path \o <<2, 2>>] = FUNC_CALL
    /\ ctx.marks[op.path \o <<4, 2>>] = ASSIGN

\* The place of the first space of a string that has one
FirstSpace(s) == CHOOSE k \in 1..Len(s) :
    SubSeq(s, k, k) = " " /\ \A j \in 1..(k - 1) : SubSeq(s, j, j) # " "

\* The line number a record begins with
RecordLine(rec) == ParseDec(SubSeq(rec, 1, FirstSpace(rec) - 1))

\* The records of a buffer have line numbers that grow from each to the next
Increasing(buff) ==
    \A i \in 1..(Len(buff) - 1) : RecordLine(buff[i]) < RecordLine(buff[i + 1])

C24_Step ==
    (op'.name = "terminal" /\ op'.exc = "") =>
        /\ op'.cst.line >= lineno
        /\ IsPrefix(ctx.buff, ctx'.buff) /\ Len(ctx'.buff) <= Len(ctx.buff) + 1
        /\ Len(ctx'.buff) = Len(ctx.buff) + 1 =>
               /\ RecordLine(Last(ctx'.buff)) = ctx.line.lineno
               /\ ctx'.line = None \/ ctx'.line.lineno > ctx.line.lineno

\* C24: the terminals coming with line numbers that never go down, a terminal
\* adds at most one record to the buffer, that of the line being built; the
\* line begun after it has a greater number; so the records of the buffer are
\* in the order of the source with line numbers that grow strictly, no line
\* number being that of two records.
C24_RecordsIncrease ==
    /\ [](pc = "term" => Increasing(ctx.buff))
    /\ [][C24_Step]_vars

\* Three records, of three lines, are in the buffer
C24_Witness ==
    /\ pc = "term" /\ ctx.exc = "" /\ Len(ctx.buff) = 3
    /\ RecordLine(ctx.buff[1]) < RecordLine(ctx.buff[3])

\* The record holds every Symbol run of the line, mark and text
HoldsSymbols(rec, line) ==
    \A i \in DOMAIN line.contents :
        isSymbol(line.contents[i]) =>
            Contains(rec, "\n" \o MarkFormat(line.contents[i].mark)
                               \o line.contents[i].name \o "\n")

\* The Symbol runs of the first line are those of the second, the last one
\* perhaps with less text
KeepsSymbols(old, new) ==
    LET o == SymbolRuns(old)
        n == SymbolRuns(new)
    IN /\ Len(n) >= Len(o)
       /\ \A i \in 1..(Len(o) - 1) : n[i] = o[i]
       /\ o # <<>> => /\ n[Len(o)].mark = Last(o).mark
                      /\ IsPrefix(Last(o).name, n[Len(o)].name)

C25_Step ==
    (op'.name = "terminal" /\ op'.exc = "") =>
        /\ IF ctx'.line.lineno = ctx.line.lineno
           THEN ctx'.buff = ctx.buff /\ KeepsSymbols(ctx.line, ctx'.line)
           ELSE IF HasSymbolRun(ctx.line)
           THEN /\ Len(ctx'.buff) = Len(ctx.buff) + 1
                /\ IsPrefix(ctx.buff, ctx'.buff)
                /\ HoldsSymbols(Last(ctx'.buff), ctx.line)
                /\ RecordLine(Last(ctx'.buff)) = ctx.line.lineno
           ELSE ctx'.buff = ctx.buff
        /\ ISEOF(op'.cst.kind) =>
               /\ ctx'.line = None
               /\ ctx'.buff = Committed(ctx)

\* C25: a terminal that leaves the line number as it is keeps the buffer and
\* every Symbol run of the line; a terminal that ends the line adds to the
\* buffer one record that holds every Symbol run of the line, a function end
\* appended at a dedent included, and nothing when the line has no Symbol.
\* The ENDMARKER ends the line so, starts no new line and adds no text: after
\* it the buffer is the buffer before it with the record of the line.
C25_NothingLost == [][C25_Step]_vars

\* The ENDMARKER has just committed a line that ends with the function end
\* appended at the last dedent
C25_Witness ==
    /\ pc = "term" /\ op.name = "terminal" /\ op.exc = "" /\ ISEOF(op.cst.kind)
    /\ ctx.line = None /\ ctx.buff # <<>>
    /\ EndsWith(Last(ctx.buff), "\n\t}\n\n")

=============================================================================
